---- MODULE Spec2Model ----
(***************************************************************************)
(* A model of loghq: the size-rotating FileWriter with its background      *)
(* compression and retention goroutines (file.go), the Logger / Handler    *)
(* pipeline (logger.go, BaseHandler, MultiHandler), the Record, and the    *)
(* JSON, logfmt and console encoders.                                      *)
(*                                                                         *)
(* Specifications sharing the module's variables:                          *)
(*   SpecFile    the FileWriter and the directory it writes to, with every *)
(*               I/O failure; each goroutine of rotate() runs in one step; *)
(*   SpecRetain  the same without I/O failures, the goroutines of rotate() *)
(*               interleaved step by step with the writer and each other;  *)
(*   SpecRotate  the same with more Write calls, so that the goroutines of *)
(*               two rotations run side by side;                           *)
(*   SpecFault   as SpecFile, with Write calls that follow a failed one    *)
(*               and a FileWriter that is never closed by its user;        *)
(*   SpecRename  Write calls after a rotation whose rename failed;         *)
(*   SpecForeign the FileWriter beside another program's log file;         *)
(*   SpecSize    payloads of at most maxSize bytes, with I/O failures;     *)
(*   SpecLog     one Logger, its level gate, its handlers and their levels;*)
(*   SpecDerive  Loggers derived from one another: their bound fields and  *)
(*               contexts;                                                 *)
(*   SpecGate    Loggers derived from one another: their level cells;      *)
(*   SpecRecordPool, SpecBufferPool                                        *)
(*               goroutines that take Records, or Buffers, from the pool   *)
(*               and put them back;                                        *)
(*   SpecAddField                                                          *)
(*               AddField called time after time on one Record;            *)
(*   SpecRecord, SpecLevel, SpecJSON, SpecJSONTime, SpecLogfmt,            *)
(*   SpecLogfmtRecord, SpecInt, SpecConsole                                *)
(*               one call of a function each (filling and reading a        *)
(*               Record, ParseLevel, the encoders), its arguments drawn    *)
(*               in the initial state and its result kept in output.       *)
(* The file specifications leave the logger's variables untouched, and the *)
(* logger specifications the file's; both leave input and output.          *)
(***************************************************************************)
EXTENDS Integers, Sequences, FiniteSets, TLC

(***************************************************************************)
(* Bounds of the model.                                                    *)
(***************************************************************************)
\* Write calls explored; each may rotate and start two goroutines.
MaxWrites == 1
\* Write calls explored in SpecRotate, where the goroutines of an earlier
\* rotation run beside a later Write; the goroutines are numbered
\* 1..MaxRotations by the Write that started them.
MaxRotations == 2
\* The wall clock runs 0..MaxClock; one unit is one day (and, for the
\* second-precision rotation timestamp, one distinguishable instant).
MaxClock == 1
\* Payload lengths are 1..MaxPayload bytes.
MaxPayload == 2
\* Base handlers 1..MaxHandlers exist; a multi-handler holds up to that many.
MaxHandlers == 2
\* Loggers 1..MaxLoggers: the one New returns and the ones derived from it.
MaxLoggers == 4
\* A With or WithFields call binds 0..MaxAdd fields.
MaxAdd == 1

(***************************************************************************)
(* Program constants.                                                      *)
(***************************************************************************)
\* file.go:37   100 * 1024 * 1024 bytes
DefaultMaxSize == 100 * 1024 * 1024
\* file.go:44   7 * 24 * time.Hour, in days
DefaultMaxAge == 7
\* file.go:51
DefaultMaxBackups == 5

VARIABLES
    \* ---- FileWriter (file.go) ----
    cfg,        \* FileConfig: MaxSize, MaxAge, MaxBackups, Compress
    fs,         \* the log directory: file name -> [ino, content, mtime, complete]
    file,       \* fw.file: "open" or "closed" (never nil after NewFileWriter)
    size,       \* fw.size
    clock,      \* time.Now()
    nwrites,    \* Write calls made so far (names the payloads and the goroutines)
    compress,   \* goroutine compressFile started by the n-th Write's rotation
    cleanup,    \* goroutine fw.cleanup started by the n-th Write's rotation
    last        \* what the last Write did and returned

fileVars == <<cfg, fs, file, size, clock, nwrites, compress, cleanup, last>>

VARIABLES
    \* ---- Logger and Handler ----
    handler,    \* the Handler the Loggers share: discard, one base handler, or a multi-handler
    hlevel,     \* BaseHandler.level of each base handler
    loggers,    \* the Loggers made so far: level, fields (a slice) and ctx
    arrays,     \* the backing arrays of the fields slices
    bound,      \* per Logger, the field list it was derived with
    gate,       \* per Logger, the gate it was given (at derivation or by SetLevel)
    lastLog,    \* what the last log call did
    exited      \* os.Exit was called

logVars == <<handler, hlevel, loggers, arrays, bound, gate, lastLog, exited>>

VARIABLES
    \* ---- One call of a function of the package ----
    input,      \* the arguments of the call
    output      \* what it returned or wrote to its Buffer; <<"none">> before the call

callVars == <<input, output>>

VARIABLES
    pool,       \* a sync.Pool: the objects put into it and not taken out again
    objects,    \* the objects the pool's New has made, by number
    procs,      \* the goroutines that take objects from the pool
    ncalls      \* calls begun so far

poolVars == <<pool, objects, procs, ncalls>>

vars == <<fileVars, logVars, callVars, poolVars>>

(***************************************************************************)
(* FileConfig defaults (file.go:33-52).                                    *)
(***************************************************************************)
maxSize(c) == IF c.MaxSize > 0 THEN c.MaxSize ELSE DefaultMaxSize

maxAge(c) == IF c.MaxAge > 0 THEN c.MaxAge ELSE DefaultMaxAge

maxBackups(c) == IF c.MaxBackups > 0 THEN c.MaxBackups ELSE DefaultMaxBackups

(***************************************************************************)
(* File names.  The active file is cfg.Path; rotate() names a backup       *)
(* "<base>-<timestamp><ext>", compressFile adds ".gz".                     *)
(***************************************************************************)
Active == [kind |-> "active", ts |-> 0, gz |-> FALSE]

BackupPath(ts) == [kind |-> "backup", ts |-> ts, gz |-> FALSE]

GzPath(p) == [p EXCEPT !.gz = TRUE]

\* A file of the directory that no rotation made, named "<base>-" followed
\* by text that is not a timestamp (letters) and "<ext>": another log.
Foreign == [kind |-> "other", ts |-> 0, gz |-> FALSE]

\* The pattern base + "-*" + ext + "*" of cleanup() (file.go:163): "*" takes
\* any text, so all names "<base>-...<ext>..." match; cfg.Path does not.
GlobMatch(n) == n.kind \in {"backup", "other"}

Glob(dir) == {n \in DOMAIN dir : GlobMatch(n)}

\* String order of two matching names: the timestamp (digits) before the
\* letters of a foreign name, then "" before ".gz".
NameLess(a, b) == \/ a.kind = "backup" /\ b.kind = "other"
                  \/ a.kind = b.kind /\ a.ts < b.ts
                  \/ a.kind = b.kind /\ a.ts = b.ts /\ ~a.gz /\ b.gz

\* sort.Strings over a set of names.
RECURSIVE SortNames(_)
SortNames(S) ==
    IF S = {} THEN <<>>
    ELSE LET m == CHOOSE x \in S : \A y \in S \ {x} : NameLess(x, y)
         IN  <<m>> \o SortNames(S \ {m})

RECURSIVE Bytes(_)
Bytes(content) ==
    IF content = <<>> THEN 0 ELSE Head(content).n + Bytes(Tail(content))

\* The directory without name n (os.Remove, or the source of a rename).
Without(dir, n) == [x \in DOMAIN dir \ {n} |-> dir[x]]

\* The directory with name n bound to file f (create, or the target of a rename).
With1(dir, n, f) == [x \in DOMAIN dir \cup {n} |-> IF x = n THEN f ELSE dir[x]]

(***************************************************************************)
(* The FileWriter's own state as a record w = [fs, file, size], so that    *)
(* openFile, rotate and Write are operators from state to state.           *)
(***************************************************************************)
\* A file created now by the n-th Write (O_CREATE) or by a goroutine.
NewFile(ino, now) == [ino |-> ino, content |-> <<>>, mtime |-> now, complete |-> FALSE]

\* An openFile that leaves fw.size as it was.
openFileKeepSize(w, outcome, id, now) ==
    LET dir == IF Active \in DOMAIN w.fs THEN w.fs
               ELSE With1(w.fs, Active, NewFile(<<"w", id>>, now))
    IN  CASE outcome = "open" -> [fs |-> w.fs, file |-> w.file, size |-> w.size, err |-> TRUE]
          [] outcome = "stat" -> [fs |-> dir, file |-> w.file, size |-> w.size, err |-> TRUE]
          [] OTHER -> [fs |-> dir, file |-> "open", size |-> w.size, err |-> FALSE]

\* file.go:81-96.  outcome: "ok", "open" (OpenFile fails) or "stat" (Stat fails,
\* after O_CREATE made the file; the handle is closed and not stored).
openFile(w, outcome, id, now) ==
    LET dir == IF Active \in DOMAIN w.fs THEN w.fs
               ELSE With1(w.fs, Active, NewFile(<<"w", id>>, now))
    IN  CASE outcome = "open" -> [fs |-> w.fs, file |-> w.file, size |-> w.size, err |-> TRUE]
          [] outcome = "stat" -> [fs |-> dir, file |-> w.file, size |-> w.size, err |-> TRUE]
          [] OTHER -> [fs |-> dir, file |-> "open",
                       size |-> Bytes(dir[Active].content), err |-> FALSE]

\* A rotate that gives up when the handle it holds is already closed.
rotateWhenOpen(w, id, now, fault) ==
    LET closed == [fs |-> w.fs, file |-> "closed", size |-> w.size]
    IN  IF fault = "rename" \/ Active \notin DOMAIN w.fs \/ w.file # "open"
        THEN [fs |-> closed.fs, file |-> closed.file, size |-> closed.size,
              err |-> TRUE, renamed |-> FALSE]
        ELSE LET moved == [closed EXCEPT
                              !.fs = With1(Without(w.fs, Active), BackupPath(now), w.fs[Active])]
                 o == openFile(moved, IF fault \in {"open", "stat"} THEN fault ELSE "ok",
                               id, now)
             IN  [fs |-> o.fs, file |-> o.file, size |-> o.size,
                  err |-> o.err, renamed |-> TRUE]

\* file.go:132-158.  fault: "rename", "open", "stat" or anything else for none.
\* os.Rename replaces whatever is at backupPath; it fails when an I/O error is
\* injected or when nothing is at cfg.Path.
rotate(w, id, now, fault) ==
    LET closed == [fs |-> w.fs, file |-> "closed", size |-> w.size]
        backupPath == BackupPath(now)
    IN  IF fault = "rename" \/ Active \notin DOMAIN w.fs
        THEN [fs |-> closed.fs, file |-> closed.file, size |-> closed.size,
              err |-> TRUE, renamed |-> FALSE]
        ELSE LET moved == [closed EXCEPT
                              !.fs = With1(Without(w.fs, Active), backupPath, w.fs[Active])]
                 o == openFile(moved, IF fault \in {"open", "stat"} THEN fault ELSE "ok",
                               id, now)
             IN  [fs |-> o.fs, file |-> o.file, size |-> o.size,
                  err |-> o.err, renamed |-> TRUE]

\* A Write that rotates as soon as the payload reaches the limit.
NeedsRotateAtLimit(s, len, max) == s + len >= max

\* file.go:102
NeedsRotate(s, len, max) == s + len > max

\* file.go:108-110.  fw.file.Write(p) on a closed handle writes nothing and
\* fails; an injected write fault is a short write, of all but the last byte.
fileWrite(w, id, len, now, fault) ==
    IF w.file # "open"
    THEN [fs |-> w.fs, file |-> w.file, size |-> w.size, n |-> 0, err |-> TRUE]
    ELSE LET n == IF fault = "write" THEN len - 1 ELSE len
             f == w.fs[Active]
             g == IF n = 0 THEN f
                  ELSE [f EXCEPT !.content = Append(@, [id |-> id, n |-> n]),
                                 !.mtime = now]
         IN  [fs |-> [w.fs EXCEPT ![Active] = g], file |-> w.file,
              size |-> w.size + n, n |-> n, err |-> fault = "write"]

\* file.go:98-111, the whole of Write under fw.mu.  handle is the state of
\* fw.file when fw.file.Write(p) is called on it (line 108), "none" when the
\* call returns before.
WriteResult(w, id, len, now, fault) ==
    IF NeedsRotate(w.size, len, maxSize(cfg))
    THEN LET r == rotate(w, id, now, fault)
         IN  IF r.err
             THEN [fs |-> r.fs, file |-> r.file, size |-> r.size, n |-> 0,
                   err |-> TRUE, renamed |-> r.renamed, handle |-> "none"]
             ELSE LET x == fileWrite(r, id, len, now, fault)
                  IN  [fs |-> x.fs, file |-> x.file, size |-> x.size, n |-> x.n,
                       err |-> x.err, renamed |-> TRUE, handle |-> r.file]
    ELSE LET x == fileWrite(w, id, len, now, fault)
         IN  [fs |-> x.fs, file |-> x.file, size |-> x.size, n |-> x.n,
              err |-> x.err, renamed |-> FALSE, handle |-> w.file]

(***************************************************************************)
(* The goroutines of rotate(): one compressFile and one cleanup per        *)
(* rotation, indexed by the Write that rotated.                            *)
(***************************************************************************)
IdleCompress == [pc |-> "idle", path |-> Active, src |-> <<>>, dst |-> <<>>]

IdleCleanup == [pc |-> "idle", matches |-> {}, files |-> {}, now |-> 0,
                removed |-> {}, missed |-> {}]

WriteFaults == {"none", "rename", "open", "stat", "write"}

\* The fault is injected only where the call it fails is reached.
FaultReached(w, len, fault) ==
    LET rot == NeedsRotate(w.size, len, maxSize(cfg))
    IN  CASE fault = "none" -> TRUE
          [] fault = "rename" -> rot /\ Active \in DOMAIN w.fs
          [] fault \in {"open", "stat"} -> rot /\ Active \in DOMAIN w.fs
          [] fault = "write" -> IF rot THEN Active \in DOMAIN w.fs ELSE w.file = "open"

Write(len, fault) ==
    /\ nwrites < MaxRotations
    /\ LET w == [fs |-> fs, file |-> file, size |-> size]
           id == nwrites + 1
       IN  /\ FaultReached(w, len, fault)
           /\ LET r == WriteResult(w, id, len, clock, fault)
              IN  /\ fs' = r.fs
                  /\ file' = r.file
                  /\ size' = r.size
                  /\ compress' = IF r.renamed /\ cfg.Compress
                                 THEN [compress EXCEPT ![id] =
                                          [IdleCompress EXCEPT !.pc = "open",
                                                               !.path = BackupPath(clock)]]
                                 ELSE compress
                  /\ cleanup' = IF r.renamed
                                THEN [cleanup EXCEPT ![id] = [IdleCleanup EXCEPT !.pc = "glob"]]
                                ELSE cleanup
                  /\ last' = [op |-> "Write", id |-> id, len |-> len, pre |-> size,
                              preContent |-> IF Active \in DOMAIN fs
                                             THEN fs[Active].content ELSE <<>>,
                              rotated |-> r.renamed, ts |-> clock,
                              n |-> r.n, err |-> r.err, handle |-> r.handle,
                              fault |-> fault]
    /\ nwrites' = nwrites + 1
    /\ UNCHANGED <<cfg, clock>>
    /\ UNCHANGED logVars
    /\ UNCHANGED callVars
    /\ UNCHANGED poolVars

NoOp == [op |-> "none", id |-> 0, len |-> 0, pre |-> 0, preContent |-> <<>>,
         rotated |-> FALSE, ts |-> 0, n |-> 0, err |-> FALSE, handle |-> "none",
         fault |-> "none"]

\* file.go:113-120.  fw.file is never nil; Sync changes nothing of the state.
Sync ==
    /\ UNCHANGED <<cfg, fs, file, size, clock, nwrites, compress, cleanup, last>>
    /\ UNCHANGED logVars
    /\ UNCHANGED callVars
    /\ UNCHANGED poolVars

\* file.go:123-130.  Closing a closed handle fails and changes nothing.
Close ==
    /\ file' = "closed"
    /\ UNCHANGED <<cfg, fs, size, clock, nwrites, compress, cleanup, last>>
    /\ UNCHANGED logVars
    /\ UNCHANGED callVars
    /\ UNCHANGED poolVars

\* Time passes.
Tick ==
    /\ clock < MaxClock
    /\ clock' = clock + 1
    /\ UNCHANGED <<cfg, fs, file, size, nwrites, compress, cleanup, last>>
    /\ UNCHANGED logVars
    /\ UNCHANGED callVars
    /\ UNCHANGED poolVars

(***************************************************************************)
(* compressFile(path), file.go:209-233, in two steps: the goroutine opens  *)
(* its two files, and later copies, closes and removes.  Between the two   *)
(* the .gz is in the directory, empty, beside the backup.  The destination *)
(* handle writes the file it created or truncated (its ino), whether or    *)
(* not that file is still in the directory.  Every call that can fail may  *)
(* fail: fault names the failing call, "none" for none.                    *)
(***************************************************************************)
GzIno(t) == <<"gz", t>>

\* file.go:210-219  os.Open(path), then os.Create(path + ".gz"), which makes
\* the file or truncates the one already there (keeping its ino).
compressBegin(dir, path, t, now, fault) ==
    LET gzp == GzPath(path)
    IN  IF path \notin DOMAIN dir \/ fault \in {"open", "create"}
        THEN [fs |-> dir, ok |-> FALSE, dst |-> <<>>]
        ELSE IF gzp \in DOMAIN dir
        THEN [fs |-> [dir EXCEPT ![gzp] = [@ EXCEPT !.content = <<>>, !.mtime = now,
                                                    !.complete = FALSE]],
              ok |-> TRUE, dst |-> dir[gzp].ino]
        ELSE [fs |-> With1(dir, gzp, NewFile(GzIno(t), now)),
              ok |-> TRUE, dst |-> GzIno(t)]

CompressBegin(t, fault) ==
    /\ compress[t].pc = "open"
    /\ LET c == compress[t]
           r == compressBegin(fs, c.path, t, clock, fault)
       IN  /\ fs' = r.fs
           /\ compress' = [compress EXCEPT ![t] =
                 IF r.ok THEN [c EXCEPT !.pc = "copy", !.src = fs[c.path].content,
                                        !.dst = r.dst]
                 ELSE IdleCompress]
    /\ UNCHANGED <<cfg, file, size, clock, nwrites, cleanup, last>>
    /\ UNCHANGED logVars
    /\ UNCHANGED callVars
    /\ UNCHANGED poolVars

\* file.go:221-232  io.Copy(gz, src); when it fails the .gz is removed and the
\* backup kept.  Otherwise gz.Close(), dst.Close(), src.Close() and
\* os.Remove(path): the errors of gz.Close and dst.Close are dropped, so when
\* one fails (fault = "close") the .gz is left without its end and path is
\* removed all the same.
compressFinish(dir, c, now, fault) ==
    LET gzp == GzPath(c.path)
        holds == gzp \in DOMAIN dir /\ dir[gzp].ino = c.dst
    IN  IF fault = "copy"
        THEN IF gzp \in DOMAIN dir THEN Without(dir, gzp) ELSE dir
        ELSE LET written == IF holds
                            THEN [dir EXCEPT ![gzp] =
                                     [@ EXCEPT !.content = c.src, !.mtime = now,
                                               !.complete = (fault # "close")]]
                            ELSE dir
             IN  IF c.path \in DOMAIN written THEN Without(written, c.path) ELSE written

CompressFinish(t, fault) ==
    /\ compress[t].pc = "copy"
    /\ fs' = compressFinish(fs, compress[t], clock, fault)
    /\ compress' = [compress EXCEPT ![t] = IdleCompress]
    /\ UNCHANGED <<cfg, file, size, clock, nwrites, cleanup, last>>
    /\ UNCHANGED logVars
    /\ UNCHANGED callVars
    /\ UNCHANGED poolVars

(***************************************************************************)
(* fw.cleanup(), file.go:160-207.  Steps: the first Glob; the Stat loop;   *)
(* the removals of the age pass; the second Glob; the removals of the      *)
(* count pass.  The errors of os.Remove are dropped.                       *)
(***************************************************************************)
\* file.go:165-168, 176  filepath.Glob(pattern); now := time.Now()
CleanupGlob(t) ==
    /\ cleanup[t].pc = "glob"
    /\ LET matches == Glob(fs)
       IN  cleanup' = [cleanup EXCEPT ![t] =
              IF matches = {} THEN IdleCleanup
              ELSE [@ EXCEPT !.pc = "stat", !.matches = matches, !.now = clock]]
    /\ UNCHANGED <<cfg, fs, file, size, clock, nwrites, compress, last>>
    /\ UNCHANGED logVars
    /\ UNCHANGED callVars
    /\ UNCHANGED poolVars

\* file.go:178-184  os.Stat(m) of every match; a match that is gone is skipped.
statAll(dir, matches) ==
    {[path |-> m, modTime |-> dir[m].mtime] : m \in matches \cap DOMAIN dir}

CleanupStat(t) ==
    /\ cleanup[t].pc = "stat"
    /\ cleanup' = [cleanup EXCEPT ![t] =
          [@ EXCEPT !.pc = "age", !.files = statAll(fs, cleanup[t].matches)]]
    /\ UNCHANGED <<cfg, fs, file, size, clock, nwrites, compress, last>>
    /\ UNCHANGED logVars
    /\ UNCHANGED callVars
    /\ UNCHANGED poolVars

\* An age pass that also removes a backup of exactly the greatest age kept.
TooOldAtLimit(now, modTime, max) == now - modTime >= max

\* file.go:193
TooOld(now, modTime, max) == now - modTime > max

\* file.go:191-197  the paths the age pass calls os.Remove on.
ageVictims(files, now, c) ==
    IF maxAge(c) > 0
    THEN {f.path : f \in {g \in files : TooOld(now, g.modTime, maxAge(c))}}
    ELSE {}

\* os.Remove of each path of S; a path that is gone is passed over.
removeAll(dir, S) == [x \in DOMAIN dir \ S |-> dir[x]]

CleanupAge(t) ==
    /\ cleanup[t].pc = "age"
    /\ LET c == cleanup[t]
           victims == ageVictims(c.files, c.now, cfg)
       IN  /\ fs' = removeAll(fs, victims)
           /\ cleanup' = [cleanup EXCEPT ![t] =
                 [IdleCleanup EXCEPT !.pc = "glob2",
                                     !.removed = victims \cap DOMAIN fs,
                                     !.missed = victims \ DOMAIN fs]]
    /\ UNCHANGED <<cfg, file, size, clock, nwrites, compress, last>>
    /\ UNCHANGED logVars
    /\ UNCHANGED callVars
    /\ UNCHANGED poolVars

\* file.go:201-203  the matches the count pass removes: all but the last maxB
\* of the sorted names, when there are more than maxB.
Excess(matches, maxB) ==
    IF maxB > 0 /\ Cardinality(matches) > maxB
    THEN {SortNames(matches)[i] : i \in 1..(Cardinality(matches) - maxB)}
    ELSE {}

\* file.go:200-202  the second filepath.Glob(pattern)
CleanupGlob2(t) ==
    /\ cleanup[t].pc = "glob2"
    /\ LET matches == Glob(fs)
           q == Excess(matches, maxBackups(cfg))
       IN  cleanup' = [cleanup EXCEPT ![t] =
              IF q = {} THEN IdleCleanup
              ELSE [IdleCleanup EXCEPT !.pc = "count", !.matches = matches]]
    /\ UNCHANGED <<cfg, fs, file, size, clock, nwrites, compress, last>>
    /\ UNCHANGED logVars
    /\ UNCHANGED callVars
    /\ UNCHANGED poolVars

\* file.go:203-205  os.Remove(m) of every excess match.
CleanupCount(t) ==
    /\ cleanup[t].pc = "count"
    /\ fs' = removeAll(fs, Excess(cleanup[t].matches, maxBackups(cfg)))
    /\ cleanup' = [cleanup EXCEPT ![t] = IdleCleanup]
    /\ UNCHANGED <<cfg, file, size, clock, nwrites, compress, last>>
    /\ UNCHANGED logVars
    /\ UNCHANGED callVars
    /\ UNCHANGED poolVars

(***************************************************************************)
(* Levels (type Level).                                                    *)
(***************************************************************************)
TraceLevel == -2
DebugLevel == -1
InfoLevel == 0
SuccessLevel == 1
WarnLevel == 2
ErrorLevel == 3
FatalLevel == 4

\* The levels of the methods Trace .. Fatal (logger.go:129-135).
Levels == TraceLevel..FatalLevel

\* The values a gate is given: any Level, the named ones and one beyond each end.
GateLevels == (TraceLevel - 1)..(FatalLevel + 1)

(***************************************************************************)
(* Handlers.  A base handler (BaseHandler, and the JSON, logfmt and        *)
(* console handlers that embed it) is a number 1..MaxHandlers.  The        *)
(* Handler of a Logger is [kind, subs]: "discard"; "base" with subs =      *)
(* <<h>>; or "multi" with the list of its sub-handlers.                    *)
(***************************************************************************)
Discard == [kind |-> "discard", subs |-> <<>>]

Base(h) == [kind |-> "base", subs |-> <<h>>]

Multi(hs) == [kind |-> "multi", subs |-> hs]

\* BaseHandler.Enabled
Enabled(h, lvl) == lvl >= hlevel[h]

\* BaseHandler.Handle: encodes rec and writes it to the sink;
\* returns the error of the sink's Write (the handler's number; 0 is nil).
BaseHandle(h, fails) ==
    [written |-> <<h>>, err |-> IF h \in fails THEN h ELSE 0]

\* MultiHandler.Handle: the loop over m.handlers, from the i-th on, with the
\* first error so far.
RECURSIVE MultiLoop(_, _, _, _, _)
MultiLoop(hs, i, lvl, fails, firstErr) ==
    IF i > Len(hs) THEN [written |-> <<>>, err |-> firstErr]
    ELSE IF Enabled(hs[i], lvl)
    THEN LET r == BaseHandle(hs[i], fails)
             rest == MultiLoop(hs, i + 1, lvl, fails,
                               IF r.err # 0 /\ firstErr = 0 THEN r.err ELSE firstErr)
         IN  [written |-> r.written \o rest.written, err |-> rest.err]
    ELSE MultiLoop(hs, i + 1, lvl, fails, firstErr)

\* A fan-out that returns at the first sub-handler that fails.
RECURSIVE StopAtError(_, _, _, _)
StopAtError(hs, i, lvl, fails) ==
    IF i > Len(hs) THEN [written |-> <<>>, err |-> 0]
    ELSE IF Enabled(hs[i], lvl)
    THEN LET r == BaseHandle(hs[i], fails)
             rest == StopAtError(hs, i + 1, lvl, fails)
         IN  IF r.err # 0 THEN r
             ELSE [written |-> r.written \o rest.written, err |-> rest.err]
    ELSE StopAtError(hs, i + 1, lvl, fails)

MultiHandleStopAtError(hs, lvl, fails) == StopAtError(hs, 1, lvl, fails)

\* MultiHandler.Handle
MultiHandle(hs, lvl, fails) == MultiLoop(hs, 1, lvl, fails, 0)

\* l.handler.Handle(rec), by the kind of handler.
Handle(hd, lvl, fails) ==
    CASE hd.kind = "discard" -> [written |-> <<>>, err |-> 0]
      [] hd.kind = "base" -> BaseHandle(hd.subs[1], fails)
      [] OTHER -> MultiHandle(hd.subs, lvl, fails)

(***************************************************************************)
(* Loggers.  fields is a Go slice [arr, len, cap] over a backing array of  *)
(* arrays; arr = 0 is the nil slice.                                       *)
(***************************************************************************)
NilSlice == [arr |-> 0, len |-> 0, cap |-> 0]

NoLogger == [used |-> FALSE, level |-> InfoLevel, fields |-> NilSlice, ctx |-> "nil"]

\* The zero Field of an array slot not yet written.
ZeroField == ""

\* The fields a slice shows.
Elems(heap, sl) == IF sl.arr = 0 THEN <<>> ELSE SubSeq(heap[sl.arr], 1, sl.len)

Fields(l) == Elems(arrays, loggers[l].fields)

Put(heap, id, arr) == [x \in DOMAIN heap \cup {id} |-> IF x = id THEN arr ELSE heap[x]]

\* A clone that takes the parent's slice as it is.
cloneFieldsShared(heap, sl, id) == [heap |-> heap, slice |-> sl]

\* logger.go:49-52  the copy of l.fields that clone() makes, in a new array id.
cloneFields(heap, sl, id) ==
    IF sl.len > 0
    THEN [heap |-> Put(heap, id, SubSeq(heap[sl.arr], 1, sl.len)),
          slice |-> [arr |-> id, len |-> sl.len, cap |-> sl.len]]
    ELSE [heap |-> heap, slice |-> NilSlice]

\* The capacity append() gives a slice that has to grow (below 256 elements).
GrowCap(oldCap, needed) == IF needed > 2 * oldCap THEN needed ELSE 2 * oldCap

\* logger.go:59, 66  append(c.fields, elems...): in place when the capacity
\* allows, else into a new array (id) of the grown capacity.
append(heap, sl, elems, id) ==
    LET k == Len(elems)
        n == sl.len + k
    IN  IF k = 0 THEN [heap |-> heap, slice |-> sl]
        ELSE IF n <= sl.cap
        THEN [heap |-> [heap EXCEPT ![sl.arr] =
                           [i \in 1..sl.cap |-> IF i > sl.len /\ i <= n
                                                THEN elems[i - sl.len] ELSE @[i]]],
              slice |-> [sl EXCEPT !.len = n]]
        ELSE LET c == GrowCap(sl.cap, n)
                 old == Elems(heap, sl)
             IN  [heap |-> Put(heap, id, [i \in 1..c |->
                                  IF i <= sl.len THEN old[i]
                                  ELSE IF i <= n THEN elems[i - sl.len]
                                  ELSE ZeroField]),
                  slice |-> [arr |-> id, len |-> n, cap |-> c]]

\* A clone whose level cell is left at its zero value.
cloneLevelUnseeded(parentLevel) == InfoLevel

\* logger.go:47  the level cell of a clone.
cloneLevel(parentLevel) == parentLevel

\* logger.go:39-54  clone(): the new Logger (number id) and the heap after it.
clone(heap, l, id) ==
    LET f == cloneFields(heap, l.fields, id)
    IN  [heap |-> f.heap,
         logger |-> [used |-> TRUE, level |-> cloneLevel(l.level),
                     fields |-> f.slice, ctx |-> l.ctx]]

\* A gate that also suppresses a call at exactly the gate's level.
SuppressedAtGate(lvl, g) == lvl <= g

\* logger.go:85
Suppressed(lvl, g) == lvl < g

\* What the last step was: kind "none" unless it was a log call; for a log
\* call its receiver, its level, the records acquired, the calls of
\* l.handler.Handle, the handlers that encoded and wrote the record in order,
\* the sinks that failed, the error Handle returned and the record's fields.
NoLog == [kind |-> "none", logger |-> 0, lvl |-> 0, handled |-> 0, acquired |-> 0,
          written |-> <<>>, fails |-> {}, err |-> 0, fields |-> <<>>, steps |-> <<>>]

\* No call of a function on its own is being looked at.
NoCall ==
    /\ input = [op |-> "none"]
    /\ output = [op |-> "none"]

\* No pool is being looked at.
NoPool ==
    /\ pool = {}
    /\ objects = <<>>
    /\ procs = <<>>
    /\ ncalls = 0

NoLoggers ==
    /\ handler = Discard
    /\ hlevel = <<>>
    /\ loggers = <<>>
    /\ arrays = <<>>
    /\ bound = <<>>
    /\ gate = <<>>
    /\ lastLog = NoLog
    /\ exited = FALSE

(***************************************************************************)
(* NewFileWriter (file.go:63-79) over a directory left by earlier runs.    *)
(***************************************************************************)
\* A payload written by an earlier run.
OldChunk(n) == [id |-> 0, n |-> n]

OldFile(k, n, now) == [ino |-> <<"old", k>>, content |-> <<OldChunk(n)>>,
                       mtime |-> now, complete |-> TRUE]

\* The backups found at start, by timestamp (days before the start).
\* with the bytes already in the active file.
InitDirs == { [backups |-> {}, active |-> 0], [backups |-> {-8, -1}, active |-> 1] }

Configs == [MaxSize : {2}, MaxAge : {0, 1}, MaxBackups : {0, 2}, Compress : BOOLEAN]

InitFile ==
    /\ cfg \in Configs
    /\ \E d \in InitDirs :
          LET backups == [b \in {[kind |-> "backup", ts |-> ts, gz |-> cfg.Compress] :
                                    ts \in d.backups}
                            |-> OldFile(b.ts, 1, b.ts)]
              start == [fs |-> IF d.active = 0 THEN backups
                               ELSE With1(backups, Active, OldFile(0, d.active, -1)),
                        file |-> "closed", size |-> 0]
              o == openFile(start, "ok", 0, 0)
          IN  /\ fs = o.fs
              /\ file = o.file
              /\ size = o.size
    /\ clock = 0
    /\ nwrites = 0
    /\ compress = [t \in 1..MaxRotations |-> IdleCompress]
    /\ cleanup = [t \in 1..MaxRotations |-> IdleCleanup]
    /\ last = NoOp
    /\ NoLoggers
    /\ NoCall
    /\ NoPool

(***************************************************************************)
(* A goroutine run from start to end with nothing in between.              *)
(***************************************************************************)
\* compressFile(path), file.go:209-233; beginFault and endFault as above.
CompressWhole(t, beginFault, endFault) ==
    /\ compress[t].pc = "open"
    /\ LET c == compress[t]
           r == compressBegin(fs, c.path, t, clock, beginFault)
       IN  fs' = IF r.ok
                 THEN compressFinish(r.fs, [c EXCEPT !.src = fs[c.path].content,
                                                     !.dst = r.dst], clock, endFault)
                 ELSE r.fs
    /\ compress' = [compress EXCEPT ![t] = IdleCompress]
    /\ UNCHANGED <<cfg, file, size, clock, nwrites, cleanup, last>>
    /\ UNCHANGED logVars
    /\ UNCHANGED callVars
    /\ UNCHANGED poolVars

\* fw.cleanup(), file.go:160-207.
cleanupWhole(dir, now, c) ==
    LET aged == removeAll(dir, ageVictims(statAll(dir, Glob(dir)), now, c))
    IN  removeAll(aged, Excess(Glob(aged), maxBackups(c)))

CleanupWhole(t) ==
    /\ cleanup[t].pc = "glob"
    /\ fs' = cleanupWhole(fs, clock, cfg)
    /\ cleanup' = [cleanup EXCEPT ![t] = IdleCleanup]
    /\ UNCHANGED <<cfg, file, size, clock, nwrites, compress, last>>
    /\ UNCHANGED logVars
    /\ UNCHANGED callVars
    /\ UNCHANGED poolVars

(***************************************************************************)
(* SpecFile: the FileWriter's operations with every I/O failure, and the   *)
(* goroutines of its rotations each run in one step.                       *)
(***************************************************************************)
NextFile ==
    \/ \E len \in 1..MaxPayload, fault \in WriteFaults :
          nwrites < MaxWrites /\ Write(len, fault)
    \/ Sync
    \/ Close
    \/ Tick
    \/ \E t \in 1..MaxRotations, b \in {"none", "open", "create"}, e \in {"none", "copy", "close"} :
          CompressWhole(t, b, e)
    \/ \E t \in 1..MaxRotations : CleanupWhole(t)

SpecFile == InitFile /\ [][NextFile]_vars

(***************************************************************************)
(* SpecRetain: the goroutines of the rotations step by step, interleaved   *)
(* with each other and with the writes that rotate.                        *)
(***************************************************************************)
NextRetain ==
    \/ \E len \in 1..MaxPayload : nwrites < MaxWrites /\ Write(len, "none")
    \/ Tick
    \/ \E t \in 1..MaxRotations : CompressBegin(t, "none")
    \/ \E t \in 1..MaxRotations : CompressFinish(t, "none")
    \/ \E t \in 1..MaxRotations : CleanupGlob(t)
    \/ \E t \in 1..MaxRotations : CleanupStat(t)
    \/ \E t \in 1..MaxRotations : CleanupAge(t)
    \/ \E t \in 1..MaxRotations : CleanupGlob2(t)
    \/ \E t \in 1..MaxRotations : CleanupCount(t)

SpecRetain == InitFile /\ [][NextRetain]_vars

(***************************************************************************)
(* SpecRotate: as SpecRetain, with MaxRotations Write calls, so that the   *)
(* goroutines of one rotation run step by step beside a later rotation     *)
(* and its goroutines.                                                     *)
(***************************************************************************)
NextRotate ==
    \/ \E len \in 1..MaxPayload : Write(len, "none")
    \/ Tick
    \/ \E t \in 1..MaxRotations : CompressBegin(t, "none")
    \/ \E t \in 1..MaxRotations : CompressFinish(t, "none")
    \/ \E t \in 1..MaxRotations : CleanupGlob(t)
    \/ \E t \in 1..MaxRotations : CleanupStat(t)
    \/ \E t \in 1..MaxRotations : CleanupAge(t)
    \/ \E t \in 1..MaxRotations : CleanupGlob2(t)
    \/ \E t \in 1..MaxRotations : CleanupCount(t)

SpecRotate == InitFile /\ [][NextRotate]_vars

(***************************************************************************)
(* SpecFault: as SpecFile, with MaxRotations Write calls, so that a Write  *)
(* follows one whose rotation failed part-way; the user of the FileWriter  *)
(* does not close it.                                                      *)
(***************************************************************************)
NextFault ==
    \/ \E len \in 1..MaxPayload, fault \in WriteFaults : Write(len, fault)
    \/ Sync
    \/ Tick
    \/ \E t \in 1..MaxRotations, b \in {"none", "open", "create"}, e \in {"none", "copy", "close"} :
          CompressWhole(t, b, e)
    \/ \E t \in 1..MaxRotations : CleanupWhole(t)

SpecFault == InitFile /\ [][NextFault]_vars

(***************************************************************************)
(* SpecRename: Write calls whose rotation may fail at os.Rename, each      *)
(* followed by further Write calls; the goroutines run in one step each    *)
(* and without failures, and the FileWriter is not closed.                 *)
(***************************************************************************)
NextRename ==
    \/ \E len \in 1..MaxPayload, fault \in {"none", "rename"} : Write(len, fault)
    \/ Tick
    \/ \E t \in 1..MaxRotations : CompressWhole(t, "none", "none")
    \/ \E t \in 1..MaxRotations : CleanupWhole(t)

SpecRename == InitFile /\ [][NextRename]_vars


(***************************************************************************)
(* Properties of the FileWriter.                                           *)
(***************************************************************************)
\* The ids of the payloads of which a file holds bytes.
ChunkIds(f) == {f.content[i].id : i \in DOMAIN f.content}

\* C1: a Write of len bytes with size counter s rotates only if
\* s + len > maxSize; when it writes bytes at all it has rotated exactly when
\* s + len > maxSize, the bytes are at the end of the current file, which is
\* the fresh file (holding nothing else) if it rotated and the file as it was
\* if not, no other file holds bytes of the payload, and unless the write
\* itself failed the payload is there whole.
C1_RotationBoundary ==
    last.op = "Write" =>
        /\ last.rotated => last.pre + last.len > maxSize(cfg)
        /\ last.n > 0 =>
              /\ last.rotated <=> (last.pre + last.len > maxSize(cfg))
              /\ Active \in DOMAIN fs
              /\ fs[Active].content =
                    (IF last.rotated THEN <<>> ELSE last.preContent)
                        \o <<[id |-> last.id, n |-> last.n]>>
              /\ \A p \in DOMAIN fs \ {Active} : last.id \notin ChunkIds(fs[p])
              /\ ~last.err => last.n = last.len

\* A Write onto a file that held bytes rotated and put its whole payload
\* into the fresh file.
C1_Witness ==
    /\ last.op = "Write"
    /\ last.rotated
    /\ last.pre > 0
    /\ last.len > 1
    /\ last.n = last.len
    /\ fs[Active].content = <<[id |-> last.id, n |-> last.len]>>

\* C4: with MaxAge = 0 no cleanup removes a backup in its age pass, and with
\* MaxBackups = 0 no cleanup finds backups in excess to remove.
C4_ZeroUnlimited ==
    /\ cfg.MaxAge = 0 => \A t \in DOMAIN cleanup : cleanup[t].removed = {}
    /\ cfg.MaxBackups = 0 => \A t \in DOMAIN cleanup : cleanup[t].pc # "count"

\* C5: when compressFile removes the uncompressed backup, a complete .gz of
\* its content is there.
C5_BackupKept ==
    [][\A t \in DOMAIN compress :
          (/\ compress[t].pc = "open"
           /\ compress'[t].pc = "idle"
           /\ compress[t].path \in DOMAIN fs
           /\ compress[t].path \notin DOMAIN fs')
          => LET gz == GzPath(compress[t].path)
             IN  /\ gz \in DOMAIN fs'
                 /\ fs'[gz].complete
                 /\ fs'[gz].content = fs[compress[t].path].content]_vars

\* C6: when the count pass of a cleanup has removed its excess, the backups
\* (rotations, by timestamp) left of those it found are exactly maxBackups.
C6_ExactlyMaxBackups ==
    [][\A t \in DOMAIN cleanup :
          (cleanup[t].pc = "count" /\ cleanup'[t].pc = "idle")
          => Cardinality({n.ts : n \in cleanup[t].matches \cap DOMAIN fs'})
                = maxBackups(cfg)]_vars

\* C7: with MaxAge > 0, the age pass of a cleanup leaves none of the backups
\* it found older than MaxAge, whether or not some of them were already gone,
\* and removes nothing else; what it leaves is as it was.
C7_AgePass ==
    [][\A t \in DOMAIN cleanup :
          (cfg.MaxAge > 0 /\ cleanup[t].pc = "age" /\ cleanup'[t].pc = "glob2")
          => LET c == cleanup[t]
                 old == {f.path : f \in {g \in c.files :
                                            c.now - g.modTime > cfg.MaxAge}}
             IN  /\ \A p \in old : p \notin DOMAIN fs'
                 /\ \A p \in DOMAIN fs \ DOMAIN fs' : p \in old
                 /\ \A p \in DOMAIN fs' : p \in DOMAIN fs /\ fs'[p] = fs[p]]_vars

\* An age pass found one of its old backups already gone and removed another.
C7_Witness ==
    /\ cfg.MaxAge > 0
    /\ \E t \in DOMAIN cleanup :
          /\ cleanup[t].pc = "glob2"
          /\ cleanup[t].removed # {}
          /\ cleanup[t].missed # {}

(***************************************************************************)
(* The logger: New, the derivations, SetLevel and the log calls.           *)
(***************************************************************************)
NoFiles ==
    /\ cfg = [MaxSize |-> 0, MaxAge |-> 0, MaxBackups |-> 0, Compress |-> FALSE]
    /\ fs = <<>>
    /\ file = "closed"
    /\ size = 0
    /\ clock = 0
    /\ nwrites = 0
    /\ compress = <<>>
    /\ cleanup = <<>>
    /\ last = NoOp

\* logger.go:24-36  New(WithHandler(hd), WithLevel(lvl)) with the handlers'
\* levels hl; the Logger is number 1.
New(hd, hl, lvl) ==
    /\ handler = hd
    /\ hlevel = hl
    /\ loggers = [l \in 1..MaxLoggers |->
                    IF l = 1 THEN [NoLogger EXCEPT !.used = TRUE, !.level = lvl]
                    ELSE NoLogger]
    /\ arrays = <<>>
    /\ bound = [l \in 1..MaxLoggers |-> <<>>]
    /\ gate = [l \in 1..MaxLoggers |-> IF l = 1 THEN lvl ELSE InfoLevel]
    /\ lastLog = NoLog
    /\ exited = FALSE

Used == {l \in 1..MaxLoggers : loggers[l].used}

\* The number of the next Logger a derivation allocates.
NextLogger == Cardinality(Used) + 1

\* The fields fieldsFromContext finds in a context.
ctxFields(ctx) == IF ctx = "nil" THEN <<>> ELSE <<ctx>>

\* A log call that leaves the process before the handler is called.
logStepsExitFirst(lvl) ==
    IF lvl = FatalLevel THEN <<"acquireRecord", "os.Exit">>
    ELSE <<"acquireRecord", "Handle", "releaseRecord">>

\* logger.go:89-124  what a log call past the level gate does, in order.
logSteps(lvl) ==
    <<"acquireRecord", "Handle", "releaseRecord">>
    \o (IF lvl = FatalLevel THEN <<"os.Exit">> ELSE <<>>)

\* logger.go:83-125  log
Log(l, lvl, fails) ==
    /\ ~exited
    /\ l \in Used
    /\ IF Suppressed(lvl, loggers[l].level)
       THEN /\ lastLog' = [NoLog EXCEPT !.kind = "log", !.logger = l, !.lvl = lvl]
            /\ exited' = exited
       ELSE LET r == Handle(handler, lvl, fails)
            IN  /\ lastLog' = [kind |-> "log", logger |-> l, lvl |-> lvl,
                               handled |-> 1, acquired |-> 1,
                               written |-> r.written, fails |-> fails,
                               err |-> r.err,
                               fields |-> Fields(l) \o ctxFields(loggers[l].ctx),
                               steps |-> logSteps(lvl)]
                /\ exited' = (\E i \in 1..Len(logSteps(lvl)) : logSteps(lvl)[i] = "os.Exit")
    /\ UNCHANGED <<handler, hlevel, loggers, arrays, bound, gate>>
    /\ UNCHANGED fileVars
    /\ UNCHANGED callVars
    /\ UNCHANGED poolVars

\* logger.go:78-80  SetLevel
SetLevel(l, lvl) ==
    /\ ~exited
    /\ l \in Used
    /\ loggers' = [loggers EXCEPT ![l].level = lvl]
    /\ gate' = [gate EXCEPT ![l] = lvl]
    /\ lastLog' = NoLog
    /\ UNCHANGED <<handler, hlevel, arrays, bound, exited>>
    /\ UNCHANGED fileVars
    /\ UNCHANGED callVars
    /\ UNCHANGED poolVars

\* BaseHandler.SetLevel
HandlerSetLevel(h, lvl) ==
    /\ ~exited
    /\ h \in DOMAIN hlevel
    /\ hlevel' = [hlevel EXCEPT ![h] = lvl]
    /\ lastLog' = NoLog
    /\ UNCHANGED <<handler, loggers, arrays, bound, gate, exited>>
    /\ UNCHANGED fileVars
    /\ UNCHANGED callVars
    /\ UNCHANGED poolVars

\* logger.go:64-68  With(fields...); logger.go:57-61  WithFields(f), where
\* elems is fieldsFromMap(f), the entries of the map in the order of its
\* iteration.
With(p, elems) ==
    /\ ~exited
    /\ p \in Used
    /\ NextLogger <= MaxLoggers
    /\ LET id == NextLogger
           c == clone(arrays, loggers[p], id)
           a == append(c.heap, c.logger.fields, elems, id)
       IN  /\ loggers' = [loggers EXCEPT ![id] = [c.logger EXCEPT !.fields = a.slice]]
           /\ arrays' = a.heap
           /\ bound' = [bound EXCEPT ![id] = bound[p] \o elems]
           /\ gate' = [gate EXCEPT ![id] = gate[p]]
    /\ lastLog' = NoLog
    /\ UNCHANGED <<handler, hlevel, exited>>
    /\ UNCHANGED fileVars
    /\ UNCHANGED callVars
    /\ UNCHANGED poolVars

\* logger.go:71-75  WithContext
WithContext(p, ctx) ==
    /\ ~exited
    /\ p \in Used
    /\ NextLogger <= MaxLoggers
    /\ LET id == NextLogger
           c == clone(arrays, loggers[p], id)
       IN  /\ loggers' = [loggers EXCEPT ![id] = [c.logger EXCEPT !.ctx = ctx]]
           /\ arrays' = c.heap
           /\ bound' = [bound EXCEPT ![id] = bound[p]]
           /\ gate' = [gate EXCEPT ![id] = gate[p]]
    /\ lastLog' = NoLog
    /\ UNCHANGED <<handler, hlevel, exited>>
    /\ UNCHANGED fileVars
    /\ UNCHANGED callVars
    /\ UNCHANGED poolVars

\* The handlers a Logger is built with.
Handlers ==
    {Discard} \cup {Base(h) : h \in 1..MaxHandlers}
        \cup {Multi([i \in 1..k |-> i]) : k \in 0..MaxHandlers}

\* The field lists a With or WithFields call binds.
FieldNames == {"a", "b"}

FieldLists == UNION {[1..k -> FieldNames] : k \in 0..MaxAdd}

\* The levels base handlers are given (TraceLevel is their default).
HandlerLevels == {TraceLevel, InfoLevel, WarnLevel}

\* The gates WithLevel and SetLevel are given where Loggers are derived.
DeriveLevels == {DebugLevel, InfoLevel, ErrorLevel}

InitLog ==
    /\ NoFiles
    /\ NoCall
    /\ NoPool
    /\ \E hd \in Handlers, hl \in [1..MaxHandlers -> HandlerLevels], lvl \in GateLevels :
          New(hd, hl, lvl)

NextLog ==
    \/ \E lvl \in Levels, fails \in SUBSET (1..MaxHandlers) : Log(1, lvl, fails)
    \/ \E lvl \in GateLevels : SetLevel(1, lvl)
    \/ \E h \in 1..MaxHandlers, lvl \in HandlerLevels : HandlerSetLevel(h, lvl)

SpecLog == InitLog /\ [][NextLog]_vars

(***************************************************************************)
(* SpecDerive: Loggers derived from the one New returns, with the default  *)
(* gate; what they bind and what their log calls carry.                    *)
(***************************************************************************)
InitDerive ==
    /\ NoFiles
    /\ NoCall
    /\ NoPool
    /\ New(Discard, <<>>, InfoLevel)

NextDerive ==
    \/ \E p \in 1..MaxLoggers, elems \in FieldLists : With(p, elems)
    \/ \E p \in 1..MaxLoggers : WithContext(p, "ctx")
    \/ \E l \in 1..MaxLoggers, lvl \in {DebugLevel, InfoLevel} : Log(l, lvl, {})

SpecDerive == InitDerive /\ [][NextDerive]_vars

(***************************************************************************)
(* SpecGate: Loggers derived from the one New returns, their gates set     *)
(* one by one, and their log calls at every level.                         *)
(***************************************************************************)
InitGate ==
    /\ NoFiles
    /\ NoCall
    /\ NoPool
    /\ \E lvl \in DeriveLevels : New(Discard, <<>>, lvl)

NextGate ==
    \/ \E p \in 1..MaxLoggers : With(p, <<>>)
    \/ \E p \in 1..MaxLoggers : WithContext(p, "ctx")
    \/ \E l \in 1..MaxLoggers, lvl \in DeriveLevels : SetLevel(l, lvl)
    \/ \E l \in 1..MaxLoggers, lvl \in Levels : Log(l, lvl, {})

SpecGate == InitGate /\ [][NextGate]_vars


(***************************************************************************)
(* Properties of the Logger and its handlers.                              *)
(***************************************************************************)
\* C2: a log call at level L on a Logger whose gate holds G calls
\* l.handler.Handle once when L >= G; when L < G it calls it not at all,
\* acquires no Record and leaves the loggers, the handlers and their levels
\* as they were.
C2_LevelGate ==
    [][lastLog'.kind = "log" =>
          LET L == lastLog'.lvl
              G == loggers[lastLog'.logger].level
          IN  /\ L >= G => lastLog'.handled = 1 /\ lastLog'.acquired = 1
              /\ L < G => /\ lastLog'.handled = 0
                          /\ lastLog'.acquired = 0
                          /\ lastLog'.written = <<>>
                          /\ UNCHANGED <<handler, hlevel, loggers, arrays, exited>>]_vars

\* A call at exactly the level of a gate other than the default was handed to
\* a handler that wrote it.
C2_Witness ==
    /\ lastLog.kind = "log"
    /\ lastLog.handled = 1
    /\ lastLog.lvl = loggers[lastLog.logger].level
    /\ lastLog.lvl # InfoLevel
    /\ lastLog.written # <<>>

\* C3: every handler that encoded and wrote the Record of a log call has a
\* level of its own at or below the Record's level.
C3_HandlerOwnGate ==
    lastLog.kind = "log" =>
        \A i \in DOMAIN lastLog.written : lastLog.lvl >= hlevel[lastLog.written[i]]

\* C8: the sub-handlers a multi-handler's Handle delivers the Record to are,
\* in list order, those whose Enabled(level) is true, whichever of them fail,
\* and it returns the error of the first of them that failed (0, nil, if none).
C8_FanOut ==
    (lastLog.kind = "log" /\ lastLog.handled = 1 /\ handler.kind = "multi") =>
        LET enabled == SelectSeq(handler.subs, LAMBDA h : lastLog.lvl >= hlevel[h])
            failed == SelectSeq(enabled, LAMBDA h : h \in lastLog.fails)
        IN  /\ lastLog.written = enabled
            /\ lastLog.err = IF failed = <<>> THEN 0 ELSE failed[1]

\* A multi-handler's first sub-handler failed and a later one still got the
\* Record; the error returned is the first one's.
C8_Witness ==
    /\ lastLog.kind = "log"
    /\ handler.kind = "multi"
    /\ Len(lastLog.written) >= 2
    /\ lastLog.written[1] \in lastLog.fails
    /\ lastLog.err = lastLog.written[1]

\* C9: every Logger's bound fields are the list it was derived with (its
\* parent's at that time followed by the fields added), whatever was derived
\* from it or beside it since; no two Loggers' field slices share a backing
\* array; and the Record of a log call carries that list and then the fields
\* of the Logger's context.
C9_FieldsIndependent ==
    /\ \A l \in Used :
          /\ Fields(l) = bound[l]
          /\ \A k \in Used \ {l} :
                loggers[l].fields.arr = 0 \/ loggers[l].fields.arr # loggers[k].fields.arr
    /\ (lastLog.kind = "log" /\ lastLog.handled = 1) =>
          lastLog.fields = bound[lastLog.logger] \o ctxFields(loggers[lastLog.logger].ctx)

\* Two children of one parent that has bound fields added different fields.
C9_Witness ==
    \E p \in Used, c \in Used, d \in Used :
        /\ p < c /\ c < d
        /\ bound[p] # <<>>
        /\ Len(bound[c]) > Len(bound[p])
        /\ Len(bound[d]) > Len(bound[p])
        /\ SubSeq(bound[c], 1, Len(bound[p])) = bound[p]
        /\ SubSeq(bound[d], 1, Len(bound[p])) = bound[p]
        /\ bound[c] # bound[d]
        /\ Fields(p) = bound[p]
        /\ lastLog.kind = "log"
        /\ lastLog.logger = p
        /\ lastLog.fields = bound[p]

\* C10: every Logger's level cell holds the gate it was seeded with from its
\* parent at derivation, or the last one SetLevel gave that same Logger; and a
\* log call is admitted exactly when its level is at or above that gate.
C10_OwnLevelCell ==
    /\ \A l \in Used : loggers[l].level = gate[l]
    /\ lastLog.kind = "log" =>
          (lastLog.handled = 1 <=> lastLog.lvl >= gate[lastLog.logger])

\* A Logger admitted a call that another Logger, with a higher gate, would
\* suppress, and a third holds a gate of its own.
C10_Witness ==
    /\ lastLog.kind = "log"
    /\ lastLog.handled = 1
    /\ \E k \in Used \ {lastLog.logger} : lastLog.lvl < gate[k]
    /\ \E k \in Used : \A j \in Used \ {k} : gate[j] # gate[k]

\* C17: the process is terminated exactly by a log call at FatalLevel that
\* passed the Logger's level gate, and then only after the handler's Handle
\* for the Record was called and returned; a log call at any other level,
\* and a Fatal call below the gate, does not terminate it.
C17_FatalExits ==
    /\ exited <=> (lastLog.kind = "log" /\ lastLog.handled = 1 /\ lastLog.lvl = FatalLevel)
    /\ \A i \in 1..Len(lastLog.steps) :
          lastLog.steps[i] = "os.Exit" =>
             /\ exited
             /\ \E j \in 1..(i - 1) : lastLog.steps[j] = "Handle"
    /\ exited => \E i \in 1..Len(lastLog.steps) : lastLog.steps[i] = "os.Exit"

C17_Witness ==
    /\ exited
    /\ lastLog.lvl = FatalLevel
    /\ lastLog.written # <<>>
    /\ lastLog.err # 0
    /\ lastLog.steps = <<"acquireRecord", "Handle", "releaseRecord", "os.Exit">>

(***************************************************************************)
(* The Record of one log call: Logger.log fills it from the Logger's bound *)
(* fields, the context's fields and the call's key/value list, and the     *)
(* encoders read it back with EachField or NumFields/FieldAt.              *)
(***************************************************************************)
\* Fields the Logger was given with With.
MaxBound == 9
\* Fields the context carries.
MaxCtx == 2
\* Elements of the key/value list of one call.
MaxKvs == 17

\* part_008:9
inlineFieldCap == 16

Field(key, type, str, ival) == [Key |-> key, Type |-> type, Str |-> str, Ival |-> ival]

\* A value of a key/value list: a Go string or a Go int.
GoString(v) == [t |-> "string", v |-> v]
GoInt(v) == [t |-> "int", v |-> v]

\* field.go:94-100  the key of a pair: the string itself, or fmt.Sprint of it.
keyOf(k) == IF k.t = "string" THEN k.v ELSE ToString(k.v)

\* field.go:116-166  toField, for strings and ints.
toField(key, val) ==
    IF val.t = "string" THEN Field(key, "FieldString", val.v, 0)
    ELSE Field(key, "FieldInt64", "", val.v)

\* field.go:103-104  the Field made of a key that has no value.
missingField(key) == Field(key, "FieldString", "MISSING", 0)

\* field.go:92-110  the loop of parseKVPairs; i is the index of the key.
RECURSIVE parseLoop(_, _, _)
parseLoop(kvs, i, fields) ==
    IF ~(i < Len(kvs)) THEN fields
    ELSE LET key == keyOf(kvs[i + 1])
         IN  IF i + 1 >= Len(kvs)
             THEN Append(fields, missingField(key))
             ELSE parseLoop(kvs, i + 2, Append(fields, toField(key, kvs[i + 2])))

\* A parser that stops at the last complete pair.
parseKVPairsWholePairs(kvs) == parseLoop(SubSeq(kvs, 1, 2 * (Len(kvs) \div 2)), 0, <<>>)

\* field.go:83-113
parseKVPairs(kvs) == IF Len(kvs) = 0 THEN <<>> ELSE parseLoop(kvs, 0, <<>>)

\* part_008:28-32  the Record the pool makes when it is empty.
newRecord == [Level |-> 0, Message |-> "", Caller |-> FALSE, Stack |-> "",
              fields |-> [i \in 1..inlineFieldCap |-> Field("", "", "", 0)],
              nFields |-> 0, extra |-> <<>>, extraCap |-> 0]

\* A reset that clears the counter of inline fields only.
resetCount(r) == [r EXCEPT !.nFields = 0]

\* part_008:44-52  reset: the inline array keeps what an earlier call left.
reset(r) == [r EXCEPT !.Level = InfoLevel, !.Message = "", !.Caller = FALSE, !.Stack = "",
                       !.nFields = 0, !.extra = <<>>, !.extraCap = 0]

\* part_008:34-38
acquireRecord(pooled) == reset(pooled)

\* An AddField that has the inline array only.
AddFieldInline(r, f) ==
    IF r.nFields < inlineFieldCap
    THEN [r EXCEPT !.fields[r.nFields + 1] = f, !.nFields = @ + 1]
    ELSE [r EXCEPT !.fields[inlineFieldCap] = f]

\* part_008:55-62  extraCap is the capacity append leaves r.extra with.
AddField(r, f) ==
    IF r.nFields < inlineFieldCap
    THEN [r EXCEPT !.fields[r.nFields + 1] = f, !.nFields = @ + 1]
    ELSE [r EXCEPT !.extra = Append(@, f),
                   !.extraCap = IF Len(r.extra) + 1 > @ THEN GrowCap(@, Len(r.extra) + 1) ELSE @]

\* part_008:65-69
RECURSIVE AddFields(_, _)
AddFields(r, list) ==
    IF list = <<>> THEN r ELSE AddFields(AddField(r, Head(list)), Tail(list))

\* A count of the inline fields only.
NumFieldsInline(r) == r.nFields

\* part_008:72-74
NumFields(r) == r.nFields + Len(r.extra)

\* part_008:78-83  FieldAt, for the 0-based index i.
FieldAt(r, i) == IF i < r.nFields THEN r.fields[i + 1] ELSE r.extra[i - r.nFields + 1]

\* part_008:87-103  AddKVPairs; i is the index of the key.
RECURSIVE AddKVPairs(_, _, _)
AddKVPairs(r, kvs, i) ==
    IF ~(i < Len(kvs)) THEN r
    ELSE LET key == keyOf(kvs[i + 1])
         IN  IF i + 1 >= Len(kvs)
             THEN AddField(r, missingField(key))
             ELSE AddKVPairs(AddField(r, toField(key, kvs[i + 2])), kvs, i + 2)

\* part_008:106-113  the Fields EachField hands to fn, in the order of the calls.
EachField(r) == [i \in 1..r.nFields |-> r.fields[i]] \o r.extra

\* encoder (part_003:67-71)  the Fields a loop over NumFields/FieldAt reads.
FieldAtLoop(r) == [i \in 1..NumFields(r) |-> FieldAt(r, i - 1)]

\* field.go:231-239  a context is nil, or carries a list of Fields.
fieldsFromContext(ctx) == IF ctx.nil THEN <<>> ELSE ctx.fields

\* logger.go:90-105  the Record Logger.log hands to the handler.
logRecord(in) ==
    LET r0 == acquireRecord(in.pooled)
        r1 == AddFields(r0, in.fields)
        r2 == IF ~in.ctx.nil THEN AddFields(r1, fieldsFromContext(in.ctx)) ELSE r1
    IN  IF Len(in.kvs) > 0 THEN AddFields(r2, parseKVPairs(in.kvs)) ELSE r2

\* A Record an earlier call released: its slots and overflow are filled.
usedRecord == [Level |-> ErrorLevel, Message |-> "old", Caller |-> TRUE, Stack |-> "old",
               fields |-> [i \in 1..inlineFieldCap |-> Field("old", "FieldInt64", "", i)],
               nFields |-> inlineFieldCap, extra |-> <<Field("old", "FieldInt64", "", 0)>>,
               extraCap |-> 1]

\* Keys of the fields drawn: all the same, alternating, or not strings.
KeyAt(kp, i) ==
    IF kp = "same" THEN GoString("a")
    ELSE IF kp = "alt" THEN (IF i % 2 = 1 THEN GoString("a") ELSE GoString("b"))
    ELSE GoInt(i % 2)

\* Values of the fields drawn: all the same string, or numbered from base.
ValAt(vp, base, i) == IF vp = "same" THEN GoString("x") ELSE GoInt(base + i)

FieldList(n, kp, vp, base) ==
    [i \in 1..n |-> toField(keyOf(KeyAt(kp, i)), ValAt(vp, base, i))]

KVList(n, kp, vp) ==
    [i \in 1..n |-> IF i % 2 = 1 THEN KeyAt(kp, (i + 1) \div 2)
                                ELSE ValAt(vp, 300, i \div 2)]

InitRecord ==
    /\ NoFiles
    /\ NoLoggers
    /\ NoPool
    /\ \E nb \in 0..MaxBound, nc \in -1..MaxCtx, nk \in 0..MaxKvs,
          kp \in {"same", "alt", "int"}, vp \in {"same", "index"},
          pooled \in {newRecord, usedRecord} :
          input = [op |-> "log", pooled |-> pooled,
                   fields |-> FieldList(nb, kp, vp, 100),
                   ctx |-> [nil |-> nc < 0,
                           fields |-> FieldList(IF nc < 0 THEN 0 ELSE nc, kp, vp, 200)],
                   kvs |-> KVList(nk, kp, vp)]
    /\ output = [op |-> "none"]

\* logger.go:83-125  one log call, up to the Record the handler is given and
\* what the encoders read from it.
LogRecord ==
    /\ input.op = "log"
    /\ output.op = "none"
    /\ LET rec == logRecord(input)
       IN  output' = [op |-> "log", rec |-> rec,
                      each |-> EachField(rec), at |-> FieldAtLoop(rec),
                      parsed |-> parseKVPairs(input.kvs),
                      direct |-> EachField(AddKVPairs(acquireRecord(input.pooled), input.kvs, 0))]
    /\ UNCHANGED input
    /\ UNCHANGED poolVars
    /\ UNCHANGED fileVars
    /\ UNCHANGED logVars

NextRecord == LogRecord

SpecRecord == InitRecord /\ [][NextRecord]_vars

\* The fields of the context in input, none for a nil context.
CtxList == IF input.ctx.nil THEN <<>> ELSE input.ctx.fields

\* C11: the Record a log call hands to the handler holds the Logger's bound
\* fields, then the context's fields, then the fields parsed from the
\* key/value list, each one once per occurrence also when keys (or whole
\* fields) repeat, and both ways the encoders read a Record (EachField, and
\* NumFields with FieldAt) give exactly that sequence, whether or not the
\* total exceeds the 16 inline slots.
C11_FieldOrder ==
    output.op = "log" =>
        LET want == input.fields \o CtxList \o output.parsed
        IN  /\ output.each = want
            /\ output.at = want
            /\ NumFields(output.rec) = Len(input.fields) + Len(CtxList) + Len(output.parsed)

C11_Witness ==
    /\ output.op = "log"
    /\ NumFields(output.rec) > inlineFieldCap
    /\ input.pooled = usedRecord
    /\ Len(input.fields) > 1 /\ Len(CtxList) > 1 /\ Len(output.parsed) > 1
    /\ input.fields[1] = input.fields[2]
    /\ output.each[1].Key = output.each[NumFields(output.rec)].Key
    /\ output.each = input.fields \o CtxList \o output.parsed

\* C12: a key/value list of n elements parses, without failing the call, to
\* ceil(n/2) fields; pair number j becomes toField of its key and value, and
\* for odd n the last field has the trailing key and the string "MISSING".
\* AddKVPairs puts the same fields into a Record.
C12_OddKVs ==
    output.op = "log" =>
        LET n == Len(input.kvs)
            got == output.parsed
        IN  /\ Len(got) = (n + 1) \div 2
            /\ \A j \in 1..(n \div 2) :
                   got[j] = toField(keyOf(input.kvs[2 * j - 1]), input.kvs[2 * j])
            /\ n % 2 = 1 =>
                   got[Len(got)] = [Key |-> keyOf(input.kvs[n]), Type |-> "FieldString",
                                  Str |-> "MISSING", Ival |-> 0]
            /\ output.direct = got

C12_Witness ==
    /\ output.op = "log"
    /\ Len(input.kvs) % 2 = 1
    /\ Len(input.kvs) > 2
    /\ output.parsed[Len(output.parsed)].Str = "MISSING"
    /\ output.parsed[1].Type = "FieldInt64"
    /\ Len(output.parsed) = (Len(input.kvs) + 1) \div 2

(***************************************************************************)
(* ParseLevel.  A string is a sequence of characters; a character is a     *)
(* letter together with its case, so that "Warn" and "warn" differ as the  *)
(* bytes of the Go strings do.                                             *)
(***************************************************************************)
\* The string that spells the letters w in lower case, and in upper case.
lc(w) == [i \in 1..Len(w) |-> [l |-> w[i], up |-> FALSE]]
uc(w) == [i \in 1..Len(w) |-> [l |-> w[i], up |-> TRUE]]

\* part_001:70-89  the switch compares s with these literals.
ParseLevel(s) ==
    CASE s \in {lc(<<"t","r","a","c","e">>), uc(<<"t","r","a","c","e">>)} -> TraceLevel
      [] s \in {lc(<<"d","e","b","u","g">>), uc(<<"d","e","b","u","g">>)} -> DebugLevel
      [] s \in {lc(<<"i","n","f","o">>), uc(<<"i","n","f","o">>)} -> InfoLevel
      [] s \in {lc(<<"s","u","c","c","e","s","s">>), uc(<<"s","u","c","c","e","s","s">>),
                lc(<<"o","k">>), uc(<<"o","k">>)} -> SuccessLevel
      [] s \in {lc(<<"w","a","r","n">>), uc(<<"w","a","r","n">>),
                lc(<<"w","a","r","n","i","n","g">>), uc(<<"w","a","r","n","i","n","g">>)} -> WarnLevel
      [] s \in {lc(<<"e","r","r","o","r">>), uc(<<"e","r","r","o","r">>)} -> ErrorLevel
      [] s \in {lc(<<"f","a","t","a","l">>), uc(<<"f","a","t","a","l">>)} -> FatalLevel
      [] OTHER -> InfoLevel

\* The level names and aliases, and the level each one names.
LevelWords ==
    {[w |-> <<"t","r","a","c","e">>, level |-> TraceLevel],
     [w |-> <<"d","e","b","u","g">>, level |-> DebugLevel],
     [w |-> <<"i","n","f","o">>, level |-> InfoLevel],
     [w |-> <<"s","u","c","c","e","s","s">>, level |-> SuccessLevel],
     [w |-> <<"o","k">>, level |-> SuccessLevel],
     [w |-> <<"w","a","r","n">>, level |-> WarnLevel],
     [w |-> <<"w","a","r","n","i","n","g">>, level |-> WarnLevel],
     [w |-> <<"e","r","r","o","r">>, level |-> ErrorLevel],
     [w |-> <<"f","a","t","a","l">>, level |-> FatalLevel]}

\* Letter sequences that name no level.
OtherWords == {<<>>, <<"o">>, <<"w","a","r","n","n">>, <<"v","e","r","b","o","s","e">>}

\* The letters of a string, whatever their case.
Letters(s) == [i \in 1..Len(s) |-> s[i].l]

InitLevel ==
    /\ NoFiles
    /\ NoLoggers
    /\ NoPool
    /\ \E w \in {x.w : x \in LevelWords} \cup OtherWords :
          \E caps \in SUBSET (1..Len(w)) :
             input = [op |-> "ParseLevel", s |-> [i \in 1..Len(w) |-> [l |-> w[i], up |-> i \in caps]]]
    /\ output = [op |-> "none"]

\* part_001:70-89  one call of ParseLevel.
ParseLevelCall ==
    /\ input.op = "ParseLevel"
    /\ output.op = "none"
    /\ output' = [op |-> "ParseLevel", level |-> ParseLevel(input.s)]
    /\ UNCHANGED input
    /\ UNCHANGED poolVars
    /\ UNCHANGED fileVars
    /\ UNCHANGED logVars

NextLevel == ParseLevelCall

SpecLevel == InitLevel /\ [][NextLevel]_vars

\* C13: ParseLevel is case-insensitive: a string whose letters, whatever
\* their case, spell a level name or alias gives that level, and every
\* other string gives InfoLevel.
C13_CaseInsensitive ==
    output.op = "ParseLevel" =>
        /\ \A x \in LevelWords :
               Letters(input.s) = x.w => output.level = x.level
        /\ (\A x \in LevelWords : Letters(input.s) # x.w) => output.level = InfoLevel

(***************************************************************************)
(* The JSON encoder.  A string is its sequence of bytes, a byte a number   *)
(* 0..255: 34 is the double quote, 92 the backslash, 10 the line feed,    *)
(* 44 the comma, 58 the colon, 123 and 125 the braces.                     *)
(***************************************************************************)
\* Messages, keys and string values have up to MaxStr bytes.
MaxStr == 2

\* The bytes strings are drawn from: a control byte, line feed, double
\* quote, backslash and the letter a.
StrBytes == {1, 10, 34, 92, 97}

Strs == UNION {[1..n -> StrBytes] : n \in 0..MaxStr}

\* encoder_json.go:166-171
hexChar(c) == IF c < 10 THEN 48 + c ELSE 97 + c - 10

\* encoder_json.go:140-162  the bytes appendJSONString writes for byte c.
jsonByte(c) ==
    CASE c = 34 -> <<92, 34>>
      [] c = 92 -> <<92, 92>>
      [] c = 10 -> <<92, 110>>
      [] c = 13 -> <<92, 114>>
      [] c = 9 -> <<92, 116>>
      [] OTHER -> IF c < 32 THEN <<92, 117, 48, 48, hexChar(c \div 16), hexChar(c % 16)>>
                  ELSE <<c>>

RECURSIVE jsonBytes(_)
jsonBytes(str) == IF str = <<>> THEN <<>> ELSE jsonByte(Head(str)) \o jsonBytes(Tail(str))

\* encoder_json.go:138-164
appendJSONString(str) == <<34>> \o jsonBytes(str) \o <<34>>

\* part_004:446-448  Buffer.AppendInt: the decimal digits of v.
RECURSIVE AppendInt(_)
AppendInt(v) ==
    IF v < 0 THEN <<45>> \o AppendInt(0 - v)
    ELSE IF v < 10 THEN <<48 + v>>
    ELSE AppendInt(v \div 10) \o <<48 + (v % 10)>>

\* part_004:458-460  Buffer.AppendBool: true or false.
AppendBool(v) == IF v THEN <<116, 114, 117, 101>> ELSE <<102, 97, 108, 115, 101>>

\* encoder_json.go:88-92  writeKey: quote, the key as it is, quote and colon.
writeKey(key) == <<34>> \o key \o <<34, 58>>

\* field.go:171-192 and encoder_json.go:94-112  one field, by its type.
jsonField(f) ==
    writeKey(f.Key) \o
    (CASE f.Type = "FieldString" -> appendJSONString(f.Str)
       [] f.Type = "FieldInt64" -> AppendInt(f.Ival)
       [] f.Type = "FieldBool" -> AppendBool(f.Ival = 1))

RECURSIVE jsonFields(_)
jsonFields(list) ==
    IF list = <<>> THEN <<>> ELSE <<44>> \o jsonField(Head(list)) \o jsonFields(Tail(list))

\* encoder_json.go:31-81  Encode, for a Record without caller and stack; the
\* time is written as the digit 0 and the level as INFO.
jsonEncode(rec) ==
    <<123>>
    \o <<34, 116, 105, 109, 101, 34, 58, 34>> \o <<48>> \o <<34>>
    \o <<44, 34, 108, 101, 118, 101, 108, 34, 58, 34>> \o <<73, 78, 70, 79>> \o <<34>>
    \o <<44, 34, 109, 115, 103, 34, 58>> \o appendJSONString(rec.Message)
    \o jsonFields(rec.fields)
    \o <<125, 10>>

\* The values a field is given: strings, small integers, booleans.
JSONFields ==
    {Field(k, "FieldString", v, 0) : k \in Strs, v \in Strs}
    \cup {Field(k, "FieldInt64", <<>>, v) : k \in Strs, v \in {-12, 0, 7}}
    \cup {Field(k, "FieldBool", <<>>, v) : k \in Strs, v \in {0, 1}}

InitJSON ==
    /\ NoFiles
    /\ NoLoggers
    /\ NoPool
    /\ \E m \in Strs, f \in JSONFields :
          input = [op |-> "Encode", Message |-> m, fields |-> <<f>>]
    /\ output = [op |-> "none"]

\* encoder_json.go:31-81  one call of JSONEncoder.Encode.
JSONEncode ==
    /\ input.op = "Encode"
    /\ output.op = "none"
    /\ output' = [op |-> "Encode", bytes |-> jsonEncode(input)]
    /\ UNCHANGED input
    /\ UNCHANGED poolVars
    /\ UNCHANGED fileVars
    /\ UNCHANGED logVars

NextJSON == JSONEncode

SpecJSON == InitJSON /\ [][NextJSON]_vars

(***************************************************************************)
(* Reading JSON text (RFC 8259): strings, integers, true and false, and an *)
(* object of such members followed by a line feed.  A result is            *)
(* [ok, pos, val]: whether the text parsed, the position after it, and the *)
(* value read.                                                             *)
(***************************************************************************)
JSONFail == [ok |-> FALSE, pos |-> 0, val |-> <<>>]

IsHex(c) == c \in 48..57 \/ c \in 97..102 \/ c \in 65..70

HexVal(c) == IF c \in 48..57 THEN c - 48 ELSE IF c \in 97..102 THEN c - 87 ELSE c - 55

\* The rest of a string after its opening quote.
RECURSIVE readChars(_, _, _)
readChars(b, p, acc) ==
    IF p > Len(b) THEN JSONFail
    ELSE IF b[p] = 34 THEN [ok |-> TRUE, pos |-> p + 1, val |-> acc]
    ELSE IF b[p] < 32 THEN JSONFail
    ELSE IF b[p] # 92 THEN readChars(b, p + 1, Append(acc, b[p]))
    ELSE IF p + 1 > Len(b) THEN JSONFail
    ELSE LET e == b[p + 1]
         IN  CASE e \in {34, 92, 47} -> readChars(b, p + 2, Append(acc, e))
               [] e = 98 -> readChars(b, p + 2, Append(acc, 8))
               [] e = 102 -> readChars(b, p + 2, Append(acc, 12))
               [] e = 110 -> readChars(b, p + 2, Append(acc, 10))
               [] e = 114 -> readChars(b, p + 2, Append(acc, 13))
               [] e = 116 -> readChars(b, p + 2, Append(acc, 9))
               [] e = 117 ->
                    IF p + 5 <= Len(b) /\ \A i \in 2..5 : IsHex(b[p + i])
                    THEN readChars(b, p + 6,
                             Append(acc, HexVal(b[p + 2]) * 4096 + HexVal(b[p + 3]) * 256
                                         + HexVal(b[p + 4]) * 16 + HexVal(b[p + 5])))
                    ELSE JSONFail
               [] OTHER -> JSONFail

readString(b, p) ==
    IF p <= Len(b) /\ b[p] = 34 THEN readChars(b, p + 1, <<>>) ELSE JSONFail

RECURSIVE readDigits(_, _, _)
readDigits(b, p, acc) ==
    IF p <= Len(b) /\ b[p] \in 48..57 THEN readDigits(b, p + 1, acc * 10 + (b[p] - 48))
    ELSE [ok |-> TRUE, pos |-> p, val |-> acc]

readNumber(b, p) ==
    LET neg == p <= Len(b) /\ b[p] = 45
        q == IF neg THEN p + 1 ELSE p
    IN  IF q <= Len(b) /\ b[q] \in 48..57 /\ ~(b[q] = 48 /\ q + 1 <= Len(b) /\ b[q + 1] \in 48..57)
        THEN LET r == readDigits(b, q, 0)
             IN  [r EXCEPT !.val = IF neg THEN 0 - @ ELSE @]
        ELSE JSONFail

HasAt(b, p, word) == p + Len(word) - 1 <= Len(b) /\ SubSeq(b, p, p + Len(word) - 1) = word

\* A value with its JSON type.
readValue(b, p) ==
    IF p > Len(b) THEN JSONFail
    ELSE IF b[p] = 34
         THEN LET r == readString(b, p)
              IN  [r EXCEPT !.val = [type |-> "string", str |-> r.val, num |-> 0]]
    ELSE IF HasAt(b, p, <<116, 114, 117, 101>>)
         THEN [ok |-> TRUE, pos |-> p + 4, val |-> [type |-> "bool", str |-> <<>>, num |-> 1]]
    ELSE IF HasAt(b, p, <<102, 97, 108, 115, 101>>)
         THEN [ok |-> TRUE, pos |-> p + 5, val |-> [type |-> "bool", str |-> <<>>, num |-> 0]]
    ELSE LET r == readNumber(b, p)
         IN  [r EXCEPT !.val = [type |-> "number", str |-> <<>>, num |-> r.val]]

\* Members from position p on, up to the closing brace.
RECURSIVE readMembers(_, _, _)
readMembers(b, p, acc) ==
    LET k == readString(b, p)
    IN  IF ~k.ok \/ k.pos > Len(b) \/ b[k.pos] # 58 THEN JSONFail
        ELSE LET v == readValue(b, k.pos + 1)
                 members == Append(acc, [key |-> k.val, val |-> v.val])
             IN  IF ~v.ok \/ v.pos > Len(b) THEN JSONFail
                 ELSE IF b[v.pos] = 125 THEN [ok |-> TRUE, pos |-> v.pos + 1, val |-> members]
                 ELSE IF b[v.pos] = 44 THEN readMembers(b, v.pos + 1, members)
                 ELSE JSONFail

\* The whole text: one object and the line feed that ends the record.
readObject(b) ==
    IF Len(b) < 2 \/ b[1] # 123 THEN JSONFail
    ELSE LET r == readMembers(b, 2, <<>>)
         IN  IF r.ok /\ r.pos = Len(b) /\ b[r.pos] = 10 THEN r ELSE JSONFail

\* The JSON value a field stands for.
JSONValueOf(f) ==
    CASE f.Type = "FieldString" -> [type |-> "string", str |-> f.Str, num |-> 0]
      [] f.Type = "FieldInt64" -> [type |-> "number", str |-> <<>>, num |-> f.Ival]
      [] f.Type = "FieldBool" -> [type |-> "bool", str |-> <<>>, num |-> f.Ival]

\* C14: the JSON encoder's output for a Record parses as one JSON object
\* that has the message under msg and, for every field, a member with the
\* field's key and its original value and type (string, number, boolean).
C14_JSONRoundTrip ==
    output.op = "Encode" =>
        LET o == readObject(output.bytes)
        IN  /\ o.ok
            /\ \E i \in 1..Len(o.val) :
                   /\ o.val[i].key = <<109, 115, 103>>
                   /\ o.val[i].val = [type |-> "string", str |-> input.Message, num |-> 0]
            /\ \A j \in 1..Len(input.fields) :
                   \E i \in 1..Len(o.val) :
                      /\ o.val[i].key = input.fields[j].Key
                      /\ o.val[i].val = JSONValueOf(input.fields[j])

\* The same for Records whose field keys hold no byte JSON requires to be
\* escaped: the escaping of messages and string values is right.
C14_PlainKeys ==
    (output.op = "Encode" /\ \A j \in 1..Len(input.fields) :
                                \A i \in 1..Len(input.fields[j].Key) :
                                   input.fields[j].Key[i] \notin {1, 10, 34, 92})
        => C14_JSONRoundTrip

(***************************************************************************)
(* The logfmt encoder's values.  Bytes as above: 32 is the space, 9 the    *)
(* tab, 61 the equals sign, 127 DEL.                                       *)
(***************************************************************************)
\* The bytes values are drawn from: tab, line feed, space, double quote,
\* equals sign, backslash, the letters a and b, and DEL.
ValueBytes == {9, 10, 32, 34, 61, 92, 97, 98, 127}

Values == UNION {[1..n -> ValueBytes] : n \in 0..MaxStr}

\* part_011:113-120  the scan that decides whether the value is quoted.
needsQuote(str) ==
    \E i \in 1..Len(str) :
       str[i] = 32 \/ str[i] = 34 \/ str[i] = 92 \/ str[i] = 61 \/ str[i] < 32

\* part_011:123-129  the quoted value's bytes between the quotes.
RECURSIVE logfmtBytes(_)
logfmtBytes(str) ==
    IF str = <<>> THEN <<>>
    ELSE (IF Head(str) = 34 \/ Head(str) = 92 THEN <<92, Head(str)>> ELSE <<Head(str)>>)
         \o logfmtBytes(Tail(str))

\* part_011:108-134 (and part_010:80-106)
appendLogfmtValue(str) ==
    IF str = <<>> THEN <<34, 34>>
    ELSE IF needsQuote(str) THEN <<34>> \o logfmtBytes(str) \o <<34>>
    ELSE str

InitLogfmt ==
    /\ NoFiles
    /\ NoLoggers
    /\ NoPool
    /\ \E v \in Values : input = [op |-> "appendLogfmtValue", s |-> v]
    /\ output = [op |-> "none"]

\* part_011:108-134  one call of appendLogfmtValue.
LogfmtValue ==
    /\ input.op = "appendLogfmtValue"
    /\ output.op = "none"
    /\ output' = [op |-> "appendLogfmtValue", bytes |-> appendLogfmtValue(input.s)]
    /\ UNCHANGED input
    /\ UNCHANGED poolVars
    /\ UNCHANGED fileVars
    /\ UNCHANGED logVars

NextLogfmt == LogfmtValue

SpecLogfmt == InitLogfmt /\ [][NextLogfmt]_vars

\* Whitespace and control characters of ASCII.
IsSpace(c) == c \in {9, 10, 11, 12, 13, 32}

IsControl(c) == c < 32 \/ c = 127

\* The value a quoted text stands for: a backslash makes the next byte
\* part of the value; a quote without one, or a backslash at the end, is
\* no quoted text.
RECURSIVE unquote(_, _)
unquote(body, acc) ==
    IF body = <<>> THEN [ok |-> TRUE, val |-> acc]
    ELSE IF Head(body) = 34 THEN [ok |-> FALSE, val |-> <<>>]
    ELSE IF Head(body) # 92 THEN unquote(Tail(body), Append(acc, Head(body)))
    ELSE IF Len(body) < 2 THEN [ok |-> FALSE, val |-> <<>>]
    ELSE unquote(Tail(Tail(body)), Append(acc, body[2]))

\* The value is written between quotes, each quote and backslash of it
\* after a backslash.
IsQuotedForm(bytes, str) ==
    /\ Len(bytes) >= 2
    /\ bytes[1] = 34
    /\ bytes[Len(bytes)] = 34
    /\ unquote(SubSeq(bytes, 2, Len(bytes) - 1), <<>>) = [ok |-> TRUE, val |-> str]

\* The rule for values that hold the byte sets given.
QuotingRule(special) ==
    output.op = "appendLogfmtValue" =>
        IF input.s = <<>> \/ \E i \in 1..Len(input.s) : input.s[i] \in special
        THEN IsQuotedForm(output.bytes, input.s)
        ELSE output.bytes = input.s

\* C15: a logfmt value is written quoted exactly when it is empty or holds
\* whitespace, an equals sign, a double quote, a backslash or a control
\* character; a quoted value has a backslash before each of its double
\* quotes and backslashes; any other value is written as it is.
C15_QuoteExactly ==
    QuotingRule({c \in ValueBytes : IsSpace(c) \/ IsControl(c) \/ c \in {61, 34, 92}})

\* The same with the control characters below 0x20 only.
C15_Below0x20 ==
    QuotingRule({c \in ValueBytes : IsSpace(c) \/ c < 32 \/ c \in {61, 34, 92}})

(***************************************************************************)
(* The console encoder.  The output is the sequence of the strings         *)
(* appended to the buffer; of each string the model keeps a name and       *)
(* whether it holds the escape byte 0x1b.                                  *)
(***************************************************************************)
\* A Record has up to MaxFields fields.
MaxFields == 2
\* Levels up to LevelSlack below TraceLevel and above FatalLevel are encoded.
LevelSlack == 2

\* encoder_console.go:7-16  the color codes all start with the escape byte.
Color(name) == [text |-> name, esc |-> TRUE]

\* A string that holds no escape byte.
Plain(text) == [text |-> text, esc |-> FALSE]

\* A string of the application: it holds an escape byte if the input says so.
Given(text, esc) == [text |-> text, esc |-> esc]

\* encoder_console.go:20-22
levelIcons == <<"icon-trace", "icon-debug", "icon-info", "icon-ok", "icon-warn", "icon-error", "icon-fatal">>
levelColors == <<"colorGray", "colorCyan", "colorBlue", "colorGreen", "colorYellow", "colorRed", "colorBoldRed">>
levelPadded == <<"TRACE ", "DEBUG ", "INFO  ", "OK    ", "WARN  ", "ERROR ", "FATAL ">>

\* encoder_console.go:40-49  the 0-based index into the three tables.
levelIndex(lvl) ==
    LET idx == lvl + 2
    IN  IF idx < 0 THEN 0
        ELSE IF idx >= Len(levelIcons) THEN Len(levelIcons) - 1
        ELSE idx

\* An appendKey that always colors the key.
appendKeyColored(noColor, key) == <<Color("colorDim"), key, Color("=colorReset")>>

\* encoder_console.go:135-144
appendKey(noColor, key) ==
    IF noColor THEN <<key, Plain("=")>>
    ELSE <<Color("colorDim"), key, Color("=colorReset")>>

\* encoder_console.go:146-184  one field: its key, then its value.
consoleField(noColor, f) == appendKey(noColor, f.key) \o <<f.val>>

\* encoder_console.go:81-91  the fields, a space between two of them.
RECURSIVE consoleFields(_, _, _)
consoleFields(noColor, list, first) ==
    IF list = <<>> THEN <<>>
    ELSE (IF ~first THEN <<Plain(" ")>> ELSE <<>>)
         \o consoleField(noColor, Head(list))
         \o consoleFields(noColor, Tail(list), FALSE)

\* encoder_console.go:52-119
consoleEncode(e, rec) ==
    LET idx == levelIndex(rec.Level)
    IN  (IF e.NoColor THEN <<Plain(" ")>> ELSE <<Color("colorDim "), Plain(" ")>>)
        \o <<Plain("time")>>
        \o (IF ~e.NoColor THEN <<Color("colorReset")>> ELSE <<>>)
        \o <<Plain(" ")>>
        \o (IF e.NoColor
            THEN <<Plain(levelIcons[idx + 1]), Plain(" "), Plain(levelPadded[idx + 1])>>
            ELSE <<Color(levelColors[idx + 1]), Plain(levelIcons[idx + 1]), Plain(" "),
                   Plain(levelPadded[idx + 1]), Color("colorReset")>>)
        \o <<rec.Message>>
        \o (IF Len(rec.fields) > 0
            THEN <<Plain("  ")>> \o consoleFields(e.NoColor, rec.fields, TRUE)
            ELSE <<>>)
        \o (IF rec.Caller
            THEN <<Plain("  ")>>
                 \o (IF e.NoColor THEN <<Plain("caller=")>>
                                  ELSE <<Color("colorDim caller= colorReset")>>)
                 \o <<Plain("file:line")>>
            ELSE <<>>)
        \o <<Plain("\n")>>
        \o (IF rec.Stack
            THEN (IF e.NoColor THEN <<Plain("stack")>>
                               ELSE <<Color("colorDim"), Plain("stack"), Color("colorReset")>>)
            ELSE <<>>)

InitConsole ==
    /\ NoFiles
    /\ NoLoggers
    /\ NoPool
    /\ \E lvl \in (TraceLevel - LevelSlack)..(FatalLevel + LevelSlack),
          noColor \in BOOLEAN, n \in 0..MaxFields, caller \in BOOLEAN,
          stack \in BOOLEAN, esc \in BOOLEAN :
          input = [op |-> "Encode", NoColor |-> noColor, esc |-> esc,
                   Level |-> lvl, Message |-> Given("msg", esc),
                   fields |-> [i \in 1..n |-> [key |-> Given("key", esc), val |-> Given("val", esc)]],
                   Caller |-> caller, Stack |-> stack]
    /\ output = [op |-> "none"]

\* encoder_console.go:52-119  one call of ConsoleEncoder.Encode.
ConsoleEncode ==
    /\ input.op = "Encode"
    /\ output.op = "none"
    /\ output' = [op |-> "Encode", strings |-> consoleEncode(input, input)]
    /\ UNCHANGED input
    /\ UNCHANGED poolVars
    /\ UNCHANGED fileVars
    /\ UNCHANGED logVars

NextConsole == ConsoleEncode

SpecConsole == InitConsole /\ [][NextConsole]_vars

\* C16: with NoColor set, and a message, keys and values that hold no
\* escape byte, no string of the console encoder's output holds one, for
\* every level, with or without fields, caller and stack; a level below
\* TraceLevel is written as TRACE and one above FatalLevel as FATAL.
C16_NoColorNoEscape ==
    (output.op = "Encode" /\ input.NoColor /\ ~input.esc) =>
        /\ \A i \in 1..Len(output.strings) : ~output.strings[i].esc
        /\ input.Level < TraceLevel =>
               \E i \in 1..Len(output.strings) : output.strings[i].text = "TRACE "
        /\ input.Level > FatalLevel =>
               \E i \in 1..Len(output.strings) : output.strings[i].text = "FATAL "

C16_Witness ==
    /\ output.op = "Encode"
    /\ input.NoColor
    /\ ~input.esc
    /\ input.Level > FatalLevel
    /\ Len(input.fields) = MaxFields
    /\ input.Caller
    /\ input.Stack
    /\ \E i \in 1..Len(output.strings) : output.strings[i].text = "key"
    /\ \A i \in 1..Len(output.strings) : ~output.strings[i].esc

(***************************************************************************)
(* Times in the JSON encoder.  The text of a time is modelled by the time  *)
(* and the layout it was formatted with.                                   *)
(***************************************************************************)
\* Instants 0..MaxTime are given to records and fields.
MaxTime == 3

\* The layouts WithJSONTimeLayout is given; "" leaves the encoder's unset.
Layouts == {"", "RFC3339Nano", "RFC3339", "Kitchen"}

\* part_004:462-464  Buffer.AppendTime: t formatted with layout.
AppendTime(t, layout) == [t |-> t, layout |-> layout]

\* encoder_json.go:23-28
timeLayout(e) == IF e.TimeLayout # "" THEN e.TimeLayout ELSE "RFC3339Nano"

\* field.go:73-75 (Time) and 157-158 (toField of a time.Time)
TimeField(key, t) == [Key |-> key, Type |-> "FieldTime", Iface |-> t]

\* encoder_json.go:119-124  (encodeField in part_003:103-108 does the same)
EncodeTime(key, val) == [key |-> key, text |-> AppendTime(val, "RFC3339Nano")]

\* encoder_json.go:31-81  Encode: the record's time, and its time fields.
jsonEncodeTimes(e, rec) ==
    [time |-> AppendTime(rec.Time, timeLayout(e)),
     fields |-> [i \in 1..Len(rec.fields) |-> EncodeTime(rec.fields[i].Key, rec.fields[i].Iface)]]

InitJSONTime ==
    /\ NoFiles
    /\ NoLoggers
    /\ NoPool
    /\ \E layout \in Layouts, t \in 0..MaxTime, ft \in 0..MaxTime, key \in FieldNames :
          input = [op |-> "EncodeTime", TimeLayout |-> layout, Time |-> t,
                   fields |-> <<TimeField(key, ft)>>]
    /\ output = [op |-> "none"]

\* encoder_json.go:31-81  one call of Encode on a JSONEncoder made by
\* NewJSONHandler with WithJSONTimeLayout (part_009:38-41).
JSONEncodeTime ==
    /\ input.op = "EncodeTime"
    /\ output.op = "none"
    /\ output' = [op |-> "EncodeTime", out |-> jsonEncodeTimes(input, input)]
    /\ UNCHANGED input
    /\ UNCHANGED poolVars
    /\ UNCHANGED fileVars
    /\ UNCHANGED logVars

NextJSONTime == JSONEncodeTime

SpecJSONTime == InitJSONTime /\ [][NextJSONTime]_vars

\* C18: a time field is written by the JSON encoder in the layout the
\* encoder was configured with, and in RFC3339Nano only when none was.
C18_FieldLayout ==
    output.op = "EncodeTime" =>
        \A i \in 1..Len(output.out.fields) :
           output.out.fields[i].text =
              AppendTime(input.fields[i].Iface,
                         IF input.TimeLayout # "" THEN input.TimeLayout ELSE "RFC3339Nano")

\* The record's own time is written in the configured layout.
C18_RecordLayout ==
    output.op = "EncodeTime" =>
        output.out.time = AppendTime(input.Time,
                                     IF input.TimeLayout # "" THEN input.TimeLayout ELSE "RFC3339Nano")

(***************************************************************************)
(* The goroutines of two rotations (SpecRotate).                           *)
(***************************************************************************)
\* C19: the goroutines one rotation started do not run beside those of a
\* later rotation: no two cleanups are both past their first Glob and not
\* yet finished, and no two compressFile calls are both copying the same
\* backup path.
C19_NoOverlap ==
    \A a, b \in DOMAIN cleanup :
       a # b =>
          /\ ~(/\ cleanup[a].pc \in {"stat", "age", "glob2", "count"}
               /\ cleanup[b].pc \in {"stat", "age", "glob2", "count"})
          /\ ~(/\ compress[a].pc = "copy"
               /\ compress[b].pc = "copy"
               /\ compress[a].path = compress[b].path)

(***************************************************************************)
(* Writes after a failed rotation (SpecFault).                             *)
(***************************************************************************)
\* C20: Write, Sync and Close exclude each other, and a Write that goes on
\* to append calls fw.file.Write on an open handle of the file at the
\* configured path, also after a rotation that failed part-way: never on
\* a handle that rotation has closed.
C20_AppendOnOpenHandle ==
    (last.op = "Write" /\ last.handle # "none") =>
        /\ last.handle = "open"
        /\ Active \in DOMAIN fs

(***************************************************************************)
(* A rotation whose rename failed (SpecRename).                            *)
(***************************************************************************)
\* C21: a Write whose rotation fails at the rename returns the error with
\* none of the payload appended and leaves the directory as it was, the
\* oversized file at the configured path with its content; the next Write
\* whose payload still exceeds the limit calls rotate again: it renames the
\* file to a backup and writes its payload into a fresh file, or fails at
\* the rename once more.
C21_RenameRetry ==
    [][nwrites' = nwrites + 1 =>
          /\ last'.fault = "rename" =>
                /\ last'.err
                /\ last'.n = 0
                /\ ~last'.rotated
                /\ fs' = fs
                /\ Active \in DOMAIN fs'
                /\ size' = size
          /\ (/\ last.op = "Write"
              /\ last.fault = "rename"
              /\ last'.pre + last'.len > maxSize(cfg)) =>
                IF last'.fault = "none"
                THEN /\ last'.rotated
                     /\ ~last'.err
                     /\ last'.n = last'.len
                     /\ BackupPath(clock) \in DOMAIN fs'
                     /\ fs'[BackupPath(clock)].content = fs[Active].content
                     /\ fs'[Active].content = <<[id |-> last'.id, n |-> last'.len]>>
                     /\ file' = "open"
                ELSE /\ last'.err
                     /\ ~last'.rotated
                     /\ fs' = fs]_vars

\* The second Write rotated a file that held bytes and nothing of the first
\* Write, whose payload had exceeded the limit as well: the first Write's
\* rotation had failed at the rename.
C21_Witness ==
    /\ last.op = "Write"
    /\ last.id = 2
    /\ last.fault = "none"
    /\ last.rotated
    /\ ~last.err
    /\ last.preContent # <<>>
    /\ \A i \in DOMAIN last.preContent : last.preContent[i].id = 0
    /\ last.pre + 1 <= maxSize(cfg)
    /\ file = "open"
    /\ fs[Active].content = <<[id |-> 2, n |-> last.len]>>

(***************************************************************************)
(* The Record pool (part_008:28-42) under concurrent log calls.  Get hands *)
(* a goroutine an object that was Put and not taken since, or one New has  *)
(* just made; nobody else has that object until it is Put again.           *)
(***************************************************************************)
\* Goroutines 1..MaxProcs call the pool.
MaxProcs == 2
\* New makes up to MaxObjects objects.
MaxObjects == 2
\* Calls begun in one behaviour.
MaxCalls == 3

IdleProc == [pc |-> "idle", obj |-> 0, call |-> 0, seen |-> <<>>]

InitRecordPool ==
    /\ NoFiles
    /\ NoLoggers
    /\ NoCall
    /\ pool = {}
    /\ objects = <<>>
    /\ procs = [p \in 1..MaxProcs |-> IdleProc]
    /\ ncalls = 0

\* sync.Pool.Get: the objects a Get may return, o = Len(objects) + 1 being
\* the one New makes.
Gettable == pool \cup (IF Len(objects) < MaxObjects THEN {Len(objects) + 1} ELSE {})

\* logger.go:89  rec := acquireRecord()  (part_008:34-38)
AcquireRecord(p, o) ==
    /\ procs[p].pc = "idle"
    /\ ncalls < MaxCalls
    /\ o \in Gettable
    /\ pool' = pool \ {o}
    /\ objects' = IF o \in DOMAIN objects
                  THEN [objects EXCEPT ![o] = acquireRecord(@)]
                  ELSE Append(objects, acquireRecord(newRecord))
    /\ procs' = [procs EXCEPT ![p] = [IdleProc EXCEPT !.pc = "fill", !.obj = o,
                                                      !.call = ncalls + 1]]
    /\ ncalls' = ncalls + 1
    /\ UNCHANGED fileVars
    /\ UNCHANGED logVars
    /\ UNCHANGED callVars

\* What call number c stores in its Record: few fields, or more than the
\* inline array holds together with caller and stack.
RecordOf(c, big) ==
    [Level |-> IF big THEN ErrorLevel ELSE InfoLevel,
     Message |-> ToString(c), Caller |-> big, Stack |-> IF big THEN ToString(c) ELSE "",
     list |-> [i \in 1..(IF big THEN inlineFieldCap + 1 ELSE 1) |->
                  Field("k", "FieldInt64", "", c)]]

\* logger.go:90-115  the Record is filled.
FillRecord(p, big) ==
    /\ procs[p].pc = "fill"
    /\ LET want == RecordOf(procs[p].call, big)
           r == objects[procs[p].obj]
       IN  objects' = [objects EXCEPT ![procs[p].obj] =
                          AddFields([r EXCEPT !.Level = want.Level, !.Message = want.Message,
                                              !.Caller = want.Caller, !.Stack = want.Stack],
                                    want.list)]
    /\ procs' = [procs EXCEPT ![p].pc = IF big THEN "handle-big" ELSE "handle"]
    /\ UNCHANGED <<pool, ncalls>>
    /\ UNCHANGED fileVars
    /\ UNCHANGED logVars
    /\ UNCHANGED callVars

\* logger.go:119  the handler reads the Record.
HandleRecord(p) ==
    /\ procs[p].pc \in {"handle", "handle-big"}
    /\ LET r == objects[procs[p].obj]
       IN  procs' = [procs EXCEPT ![p].pc = "release",
                                  ![p].seen = <<[Level |-> r.Level, Message |-> r.Message,
                                                 Caller |-> r.Caller, Stack |-> r.Stack,
                                                 list |-> EachField(r)],
                                                RecordOf(procs[p].call, procs[p].pc = "handle-big")>>]
    /\ UNCHANGED <<pool, objects, ncalls>>
    /\ UNCHANGED fileVars
    /\ UNCHANGED logVars
    /\ UNCHANGED callVars

\* logger.go:120  releaseRecord(rec)  (part_008:40-42); also a Record that
\* is released as it was acquired.
ReleaseRecord(p) ==
    /\ procs[p].pc \in {"fill", "release"}
    /\ pool' = pool \cup {procs[p].obj}
    /\ procs' = [procs EXCEPT ![p] = IdleProc]
    /\ UNCHANGED <<objects, ncalls>>
    /\ UNCHANGED fileVars
    /\ UNCHANGED logVars
    /\ UNCHANGED callVars

NextRecordPool ==
    \/ \E p \in 1..MaxProcs, o \in 1..MaxObjects : AcquireRecord(p, o)
    \/ \E p \in 1..MaxProcs, big \in BOOLEAN : FillRecord(p, big)
    \/ \E p \in 1..MaxProcs : HandleRecord(p)
    \/ \E p \in 1..MaxProcs : ReleaseRecord(p)

SpecRecordPool == InitRecordPool /\ [][NextRecordPool]_vars

\* A Record that shows nothing of an earlier log call.
CleanRecord(r) ==
    /\ r.nFields = 0
    /\ r.extra = <<>>
    /\ r.extraCap = 0
    /\ NumFields(r) = 0
    /\ EachField(r) = <<>>
    /\ r.Message = ""
    /\ ~r.Caller
    /\ r.Stack = ""

\* C22: the Record a log call has just acquired has no fields (inline count
\* 0, overflow empty with capacity 0), an empty message, no caller and no
\* stack, whatever the call that had it before stored and however the
\* calls interleave; no two calls hold the same Record, the handler sees
\* exactly what its own call stored, and resetting a Record twice gives
\* the same clean Record as resetting it once.
C22_CleanRecord ==
    /\ \A p \in DOMAIN procs :
          /\ procs[p].pc = "fill" => CleanRecord(objects[procs[p].obj])
          /\ procs[p].pc = "release" => procs[p].seen[1] = procs[p].seen[2]
          /\ \A q \in DOMAIN procs :
                (p # q /\ procs[p].pc # "idle" /\ procs[q].pc # "idle")
                   => procs[p].obj # procs[q].obj
    /\ \A o \in DOMAIN objects :
          /\ CleanRecord(acquireRecord(objects[o]))
          /\ acquireRecord(acquireRecord(objects[o])) = acquireRecord(objects[o])

\* A call has acquired a Record that the other call, still running, had
\* filled past the inline array and released before.
C22_Witness ==
    \E p, q \in DOMAIN procs :
       /\ p # q
       /\ procs[p].pc = "fill"
       /\ procs[p].call = MaxCalls
       /\ procs[q].pc = "handle-big"
       /\ objects[procs[p].obj].fields[inlineFieldCap].Ival = 1
       /\ CleanRecord(objects[procs[p].obj])

(***************************************************************************)
(* AddField called one field at a time on a Record fresh from              *)
(* acquireRecord (part_008:34-38, 55-62), as TestRecordInlineFields does.  *)
(***************************************************************************)
\* AddField is called up to MaxFieldCalls times on one Record.
MaxFieldCalls == 18

InitAddField ==
    /\ NoFiles
    /\ NoLoggers
    /\ NoPool
    /\ \E kp \in {"same", "alt", "int"}, vp \in {"same", "index"},
          pooled \in {newRecord, usedRecord} :
          input = [op |-> "add", pooled |-> pooled,
                   fields |-> FieldList(MaxFieldCalls, kp, vp, 300)]
    /\ output = [op |-> "none"]

\* rec := acquireRecord()
AcquireFresh ==
    /\ input.op = "add"
    /\ output.op = "none"
    /\ output' = [op |-> "add", rec |-> acquireRecord(input.pooled), added |-> <<>>]
    /\ UNCHANGED input
    /\ UNCHANGED poolVars
    /\ UNCHANGED fileVars
    /\ UNCHANGED logVars

\* rec.AddField(f), f the next field of input.
AddFieldCall ==
    /\ output.op = "add"
    /\ Len(output.added) < MaxFieldCalls
    /\ LET f == input.fields[Len(output.added) + 1]
       IN  output' = [output EXCEPT !.rec = AddField(@, f), !.added = Append(@, f)]
    /\ UNCHANGED input
    /\ UNCHANGED poolVars
    /\ UNCHANGED fileVars
    /\ UNCHANGED logVars

NextAddField == AcquireFresh \/ AddFieldCall

SpecAddField == InitAddField /\ [][NextAddField]_vars

Min(a, b) == IF a < b THEN a ELSE b
Max(a, b) == IF a > b THEN a ELSE b

\* C23: after k AddField calls on a freshly acquired Record the inline count
\* is min(k, 16) (never above 16), the overflow list holds max(k - 16, 0)
\* fields, NumFields() is k, and FieldAt(i) is the (i+1)-th field added for
\* every i < k.
C23_FieldCounts ==
    output.op = "add" =>
        LET k == Len(output.added)
            r == output.rec
        IN  /\ r.nFields = Min(k, inlineFieldCap)
            /\ r.nFields <= inlineFieldCap
            /\ Len(r.extra) = Max(k - inlineFieldCap, 0)
            /\ NumFields(r) = k
            /\ \A i \in 0..(k - 1) : FieldAt(r, i) = output.added[i + 1]

\* Two fields went to the overflow list of a Record that came used from
\* the pool.
C23_Witness ==
    /\ output.op = "add"
    /\ input.pooled = usedRecord
    /\ Len(output.added) = inlineFieldCap + 2
    /\ output.rec.nFields = inlineFieldCap
    /\ Len(output.rec.extra) = 2
    /\ FieldAt(output.rec, inlineFieldCap + 1) # FieldAt(output.rec, 0)

RECURSIVE SumSeq(_)
SumSeq(q) == IF q = <<>> THEN 0 ELSE Head(q) + SumSeq(Tail(q))

(***************************************************************************)
(* The Buffer pool (part_004:416-432) under concurrent Handle calls        *)
(* (part_005:43-49).  A Buffer is the length and the capacity of its B.    *)
(***************************************************************************)
\* part_004:408
defaultBufSize == 1024

\* One Handle call appends up to MaxAppends times.
MaxAppends == 2

\* The lengths of what one Append call adds.
AppendSizes == {defaultBufSize, 16 * 1024}

\* The capacity append() gives a byte slice that has to grow to needed
\* (runtime growslice, before it rounds up to an allocation size).
RECURSIVE GrowQuarter(_, _)
GrowQuarter(c, needed) ==
    IF c >= needed THEN c ELSE GrowQuarter(c + (c + 3 * 256) \div 4, needed)

GrowBytes(oldCap, needed) ==
    IF needed > 2 * oldCap THEN needed
    ELSE IF oldCap < 256 THEN 2 * oldCap
    ELSE GrowQuarter(oldCap, needed)

\* part_004:434-444  b.B = append(b.B, p...)
AppendBytes(b, n) ==
    [len |-> b.len + n,
     cap |-> IF b.len + n > b.cap THEN GrowBytes(b.cap, b.len + n) ELSE b.cap]

\* part_004:416-420  New
newBuffer == [len |-> 0, cap |-> defaultBufSize]

\* A putBuffer that pools a Buffer whatever its capacity.
putBufferAny(b) == [put |-> TRUE, buf |-> [b EXCEPT !.len = 0]]

\* part_004:426-432  whether the Buffer goes back to the pool, and the
\* Buffer as putBuffer leaves it.
putBuffer(b) ==
    IF b.cap > 16 * 1024
    THEN [put |-> FALSE, buf |-> b]
    ELSE [put |-> TRUE, buf |-> [b EXCEPT !.len = 0]]

InitBufferPool ==
    /\ NoFiles
    /\ NoLoggers
    /\ NoCall
    /\ pool = {}
    /\ objects = <<>>
    /\ procs = [p \in 1..MaxProcs |-> IdleProc]
    /\ ncalls = 0

\* part_005:44  buf := getBuffer()  (part_004:422-424)
GetBuffer(p, o) ==
    /\ procs[p].pc = "idle"
    /\ ncalls < MaxCalls
    /\ o \in Gettable
    /\ pool' = pool \ {o}
    /\ objects' = IF o \in DOMAIN objects THEN objects ELSE Append(objects, newBuffer)
    /\ procs' = [procs EXCEPT ![p] = [IdleProc EXCEPT !.pc = "encode", !.obj = o,
                                                      !.call = ncalls + 1]]
    /\ ncalls' = ncalls + 1
    /\ UNCHANGED fileVars
    /\ UNCHANGED logVars
    /\ UNCHANGED callVars

\* part_005:45  the encoder appends to the Buffer.
AppendBuffer(p, n) ==
    /\ procs[p].pc = "encode"
    /\ Len(procs[p].seen) < MaxAppends
    /\ objects' = [objects EXCEPT ![procs[p].obj] = AppendBytes(@, n)]
    /\ procs' = [procs EXCEPT ![p].seen = Append(@, n)]
    /\ UNCHANGED <<pool, ncalls>>
    /\ UNCHANGED fileVars
    /\ UNCHANGED logVars
    /\ UNCHANGED callVars

\* part_005:46-47  the bytes are written, then putBuffer(buf).
PutBuffer(p) ==
    /\ procs[p].pc = "encode"
    /\ LET res == putBuffer(objects[procs[p].obj])
       IN  /\ objects' = [objects EXCEPT ![procs[p].obj] = res.buf]
           /\ pool' = IF res.put THEN pool \cup {procs[p].obj} ELSE pool
    /\ procs' = [procs EXCEPT ![p] = IdleProc]
    /\ UNCHANGED ncalls
    /\ UNCHANGED fileVars
    /\ UNCHANGED logVars
    /\ UNCHANGED callVars

NextBufferPool ==
    \/ \E p \in 1..MaxProcs, o \in 1..MaxObjects : GetBuffer(p, o)
    \/ \E p \in 1..MaxProcs, n \in AppendSizes : AppendBuffer(p, n)
    \/ \E p \in 1..MaxProcs : PutBuffer(p)

SpecBufferPool == InitBufferPool /\ [][NextBufferPool]_vars

\* C24: the pool never holds a Buffer of a capacity above 16 KiB, and every
\* Buffer the pool hands out (one it holds, or one a Handle call has got
\* and not yet appended to) has length 0; no two calls have the same Buffer.
C24_PooledBuffers ==
    /\ \A o \in pool : objects[o].cap <= 16 * 1024 /\ objects[o].len = 0
    /\ \A p \in DOMAIN procs :
          /\ (procs[p].pc = "encode" /\ procs[p].seen = <<>>) => objects[procs[p].obj].len = 0
          /\ procs[p].pc = "encode" =>
                 objects[procs[p].obj].len = SumSeq(procs[p].seen)
          /\ \A q \in DOMAIN procs :
                (p # q /\ procs[p].pc # "idle" /\ procs[q].pc # "idle")
                   => procs[p].obj # procs[q].obj

\* One Buffer grew past 16 KiB and was not pooled; a Handle call has got,
\* with length 0, the other Buffer, which an earlier call grew to 16 KiB.
C24_Witness ==
    \E p \in DOMAIN procs, o \in DOMAIN objects :
       /\ procs[p].pc = "encode"
       /\ procs[p].seen = <<>>
       /\ objects[procs[p].obj] = [len |-> 0, cap |-> 16 * 1024]
       /\ o # procs[p].obj
       /\ objects[o].cap > 16 * 1024
       /\ objects[o].len > 0
       /\ o \notin pool
       /\ \A q \in DOMAIN procs : procs[q].obj # o

\* C25: no rotation overwrites or replaces a backup: every backup that is
\* on disk when a Write rotates is still there, the same file with the
\* same bytes, when that Write returns, also when the rotation before it
\* happened within the same second.
C25_BackupsNotReplaced ==
    [][(nwrites' = nwrites + 1 /\ last'.rotated)
          => \A n \in DOMAIN fs :
                n.kind = "backup" => (n \in DOMAIN fs' /\ fs'[n] = fs[n])]_vars

\* C26: a Write on a FileWriter whose Close has returned (the one Write of
\* a behaviour finds the handle closed) returns an error, appends no
\* bytes, does not rotate and does not open a new handle, without any I/O
\* error in that Write.
C26_WriteAfterClose ==
    [][(nwrites' = nwrites + 1 /\ file = "closed" /\ last'.fault = "none")
          => /\ last'.err
             /\ last'.n = 0
             /\ ~last'.rotated
             /\ file' = "closed"
             /\ fs' = fs]_vars

(***************************************************************************)
(* SpecForeign: the FileWriter in a directory that also holds another      *)
(* program's log, last written 8 days ago, whose name matches the pattern  *)
(* of cleanup().                                                           *)
(***************************************************************************)
InitForeign ==
    /\ cfg \in Configs
    /\ \E d \in InitDirs :
          LET backups == [b \in {[kind |-> "backup", ts |-> ts, gz |-> cfg.Compress] :
                                    ts \in d.backups}
                            |-> OldFile(b.ts, 1, b.ts)]
              others == With1(backups, Foreign, OldFile(-9, 1, -8))
              start == [fs |-> IF d.active = 0 THEN others
                               ELSE With1(others, Active, OldFile(0, d.active, -1)),
                        file |-> "closed", size |-> 0]
              o == openFile(start, "ok", 0, 0)
          IN  /\ fs = o.fs
              /\ file = o.file
              /\ size = o.size
    /\ clock = 0
    /\ nwrites = 0
    /\ compress = [t \in 1..MaxRotations |-> IdleCompress]
    /\ cleanup = [t \in 1..MaxRotations |-> IdleCleanup]
    /\ last = NoOp
    /\ NoLoggers
    /\ NoCall
    /\ NoPool

NextForeign ==
    \/ \E len \in 1..MaxPayload : Write(len, "none")
    \/ Tick
    \/ \E t \in 1..MaxRotations : CompressWhole(t, "none", "none")
    \/ \E t \in 1..MaxRotations : CleanupWhole(t)

SpecForeign == InitForeign /\ [][NextForeign]_vars

\* C27: a cleanup removes only rotation backups of its own log: every name
\* that is in the directory before a cleanup and not after it is a backup
\* (never cfg.Path, never a file no rotation made).
C27_OnlyOwnBackups ==
    [][(\E t \in 1..MaxRotations : cleanup[t].pc = "glob" /\ cleanup'[t].pc = "idle")
          => \A n \in DOMAIN fs \ DOMAIN fs' : n.kind = "backup"]_vars

(***************************************************************************)
(* SpecSize: payloads of at most maxSize bytes, with every I/O failure,    *)
(* on a log file that at construction is absent, below maxSize or above    *)
(* it.  Nothing but the FileWriter writes the file.                        *)
(***************************************************************************)
\* The bytes in the log file at construction (0: no file).
InitSizes == {0, 1, 3}

InitSize ==
    /\ cfg \in Configs
    /\ \E active \in InitSizes :
          LET start == [fs |-> IF active = 0 THEN <<>>
                               ELSE With1(<<>>, Active, OldFile(0, active, -1)),
                        file |-> "closed", size |-> 0]
              o == openFile(start, "ok", 0, 0)
          IN  /\ fs = o.fs
              /\ file = o.file
              /\ size = o.size
    /\ clock = 0
    /\ nwrites = 0
    /\ compress = [t \in 1..MaxRotations |-> IdleCompress]
    /\ cleanup = [t \in 1..MaxRotations |-> IdleCleanup]
    /\ last = NoOp
    /\ NoLoggers
    /\ NoCall
    /\ NoPool

NextSize ==
    \/ \E len \in 1..MaxPayload, fault \in WriteFaults :
          len <= maxSize(cfg) /\ Write(len, fault)
    \/ Close
    \/ Tick
    \/ \E t \in 1..MaxRotations : CompressWhole(t, "none", "none")
    \/ \E t \in 1..MaxRotations : CleanupWhole(t)

SpecSize == InitSize /\ [][NextSize]_vars

\* C28: with payloads of at most maxSize bytes, when the last Write
\* returned no error the log file is at cfg.Path, fw.size is the number of
\* bytes in it and at most maxSize, whatever writes, rotations and failures
\* came before and also when the file found at construction was larger
\* than maxSize.
C28_SizeIsLength ==
    (last.op = "Write" /\ ~last.err) =>
        /\ Active \in DOMAIN fs
        /\ size = Bytes(fs[Active].content)
        /\ size <= maxSize(cfg)
        /\ last.n = last.len

\* The file found at construction was larger than maxSize; the first Write
\* failed in its rotation, the second rotated and wrote.
C28_Witness ==
    /\ last.op = "Write"
    /\ ~last.err
    /\ last.id = 2
    /\ last.rotated
    /\ last.pre > maxSize(cfg)
    /\ size = last.len
    /\ Bytes(fs[Active].content) = last.len

(***************************************************************************)
(* Integers of a key/value list, from toField (field.go:116-139) to the    *)
(* JSON encoder (encoder_json.go:99-102).  An integer is the bytes of its  *)
(* type in two's complement, most significant first: 8 bytes for int,      *)
(* uint, int64 and uint64.                                                 *)
(***************************************************************************)
IntTypes == {"int", "int64", "int32", "int16", "int8",
             "uint", "uint64", "uint32", "uint16", "uint8"}

\* The bytes of a type.
IntSize(t) ==
    CASE t \in {"int8", "uint8"} -> 1
      [] t \in {"int16", "uint16"} -> 2
      [] t \in {"int32", "uint32"} -> 4
      [] OTHER -> 8

Signed(t) == t \in {"int", "int64", "int32", "int16", "int8"}

\* The values drawn of a type of n bytes: 0, 1, the largest with the top
\* bit clear, the top bit alone, and all bits set.
IntPatterns(n) ==
    {[i \in 1..n |-> 0],
     [i \in 1..n |-> IF i = n THEN 1 ELSE 0],
     [i \in 1..n |-> IF i = 1 THEN 127 ELSE 255],
     [i \in 1..n |-> IF i = 1 THEN 128 ELSE 0],
     [i \in 1..n |-> 255]}

IntValues == UNION {{[t |-> t, b |-> b] : b \in IntPatterns(IntSize(t))} : t \in IntTypes}

TopBit(b) == b[1] >= 128

\* field.go:120-139  int64(v): sign extension of a signed type, zero
\* extension of an unsigned one, the same 8 bytes for uint and uint64.
toInt64(val) ==
    LET n == Len(val.b)
        fill == IF Signed(val.t) /\ TopBit(val.b) THEN 255 ELSE 0
    IN  [i \in 1..8 |-> IF i <= 8 - n THEN fill ELSE val.b[i - (8 - n)]]

\* field.go:120-139  toField, for the integer types.
toFieldInteger(key, val) == Field(key, "FieldInt64", "", toInt64(val))

IsZero(b) == \A i \in DOMAIN b : b[i] = 0

\* The magnitude of a negative two's complement number.
Negate(b) ==
    LET low == CHOOSE i \in DOMAIN b : b[i] # 0 /\ \A j \in DOMAIN b : j > i => b[j] = 0
    IN  [i \in DOMAIN b |-> IF i < low THEN 255 - b[i]
                            ELSE IF i = low THEN 256 - b[i] ELSE 0]

\* The remainder of the first i bytes of b divided by ten.
RECURSIVE RemTen(_, _)
RemTen(b, i) == IF i = 0 THEN 0 ELSE (256 * RemTen(b, i - 1) + b[i]) % 10

\* b divided by ten.
QuoTen(b) == [i \in DOMAIN b |-> (256 * RemTen(b, i - 1) + b[i]) \div 10]

\* The decimal digits of an unsigned number.
RECURSIVE Digits(_)
Digits(b) ==
    IF IsZero(b) THEN <<>>
    ELSE Digits(QuoTen(b)) \o <<48 + RemTen(b, Len(b))>>

Decimal(b) == IF IsZero(b) THEN <<48>> ELSE Digits(b)

\* part_004:446-448  Buffer.AppendInt: strconv.AppendInt(b, i, 10) of an int64.
AppendInt64(b) ==
    IF TopBit(b) THEN <<45>> \o Decimal(Negate(b)) ELSE Decimal(b)

\* encoder_json.go:99-102  EncodeInt64
jsonInt64(f) == writeKey(f.Key) \o AppendInt64(f.Ival)

\* The numeric value of an integer of its own type, in decimal.
ValueText(val) ==
    IF Signed(val.t) /\ TopBit(val.b) THEN <<45>> \o Decimal(Negate(val.b))
    ELSE Decimal(val.b)

InitInt ==
    /\ NoFiles
    /\ NoLoggers
    /\ NoPool
    /\ \E key \in {<<97>>, <<98>>}, val \in IntValues :
          input = [op |-> "int", key |-> key, val |-> val]
    /\ output = [op |-> "none"]

\* A log call with the pair key, val, up to the bytes of the field in JSON.
JSONEncodeInt ==
    /\ input.op = "int"
    /\ output.op = "none"
    /\ LET f == toFieldInteger(input.key, input.val)
       IN  output' = [op |-> "int", field |-> f, bytes |-> jsonInt64(f)]
    /\ UNCHANGED input
    /\ UNCHANGED poolVars
    /\ UNCHANGED fileVars
    /\ UNCHANGED logVars

NextInt == JSONEncodeInt

SpecInt == InitInt /\ [][NextInt]_vars

\* C29: an integer of a key/value list is written with its numeric value,
\* for every built-in integer type, unsigned 64-bit values above 2^63 - 1
\* included.
C29_IntegerPreserved ==
    output.op = "int" => output.bytes = writeKey(input.key) \o ValueText(input.val)

(***************************************************************************)
(* The logfmt encoder on a whole Record (part_011:22-51): message, one     *)
(* string field.                                                           *)
(***************************************************************************)
\* The bytes of messages, keys and values: newline, space, a letter.
LineBytes == {10, 32, 97}

Lines == UNION {[1..n -> LineBytes] : n \in 0..MaxStr}

\* part_011:58-62  EncodeString: the key as it is, '=', the value.
logfmtField(f) == f.Key \o <<61>> \o appendLogfmtValue(f.Str)

RECURSIVE logfmtFields(_)
logfmtFields(list) ==
    IF list = <<>> THEN <<>> ELSE <<32>> \o logfmtField(Head(list)) \o logfmtFields(Tail(list))

\* part_011:22-51  Encode, for a Record without caller; the time is written
\* as the digit 0 and the level as info.
logfmtEncode(rec) ==
    <<116, 105, 109, 101, 61>> \o <<48>>
    \o <<32, 108, 101, 118, 101, 108, 61>> \o <<105, 110, 102, 111>>
    \o <<32, 109, 115, 103, 61>> \o appendLogfmtValue(rec.Message)
    \o logfmtFields(rec.fields)
    \o <<10>>

InitLogfmtRecord ==
    /\ NoFiles
    /\ NoLoggers
    /\ NoPool
    /\ \E msg \in Lines, key \in Lines \ {<<>>}, val \in Lines :
          input = [op |-> "logfmt", Message |-> msg,
                   fields |-> <<Field(key, "FieldString", val, 0)>>]
    /\ output = [op |-> "none"]

\* part_011:22-51  one call of Encode.
LogfmtEncode ==
    /\ input.op = "logfmt"
    /\ output.op = "none"
    /\ output' = [op |-> "logfmt", bytes |-> logfmtEncode(input)]
    /\ UNCHANGED input
    /\ UNCHANGED poolVars
    /\ UNCHANGED fileVars
    /\ UNCHANGED logVars

NextLogfmtRecord == LogfmtEncode

SpecLogfmtRecord == InitLogfmtRecord /\ [][NextLogfmtRecord]_vars

\* The newline bytes of a text.
Newlines(text) == Cardinality({i \in DOMAIN text : text[i] = 10})

\* C30: what the logfmt encoder writes for one Record is one line: it has
\* exactly one newline byte, its last, whatever bytes the message, the
\* keys and the string values contain.
C30_OneLine ==
    output.op = "logfmt" =>
        /\ Newlines(output.bytes) = 1
        /\ output.bytes[Len(output.bytes)] = 10

====
